---- MODULE Spec2Model ----
(***************************************************************************)
(* Model of devagent: the scheduler daemon (reconciliation of the cron     *)
(* table with the job store, lock-guarded execution of triggers), the      *)
(* manual `run` command, the step runner and the redaction pipeline.       *)
(*                                                                         *)
(* The specifications of the module:                                       *)
(*   Spec        the job store and the daemon's reconciliation loop        *)
(*   SpecEdit    the same loop with rows edited, removed and added again   *)
(*   SpecFix     the same loop over a store with a cron spec to be repaired *)
(*   SpecExec    trigger callbacks and manual runs against the lock files  *)
(*   SpecJob     one trigger's execution with the step runner inside it    *)
(*   SpecLive    reconciliation while executions are in flight (fair)      *)
(*   SpecPersist the daemon's writes of last status and last run           *)
(*   SpecRun     one invocation of runner.Run on an arbitrary workflow     *)
(*   SpecStamp   the same invocation while the host's wall clock moves     *)
(*   SpecRedact  the redacting writer and the command echo on a stream     *)
(*   SpecClock   the cron engine dispatching a registered job over a week  *)
(*   SpecNew     the `new` command followed by `run` in the same directory *)
(*   SpecEnv     the environment handed to the bash of a step              *)
(*   SpecDirs    runs of one or two repositories and their run directories *)
(***************************************************************************)
EXTENDS Integers, Sequences, FiniteSets, TLC

VARIABLES
    db,        \* store: rows of table jobs, name -> [cron, timezone, yamlPath, lastStatus, lastRun]
    jobs,      \* Daemon.jobs: job name -> cron.EntryID
    entries,   \* cron engine: EntryID -> job descriptor captured by the callback
    nextID,    \* cron engine: last EntryID handed out
    daemon,    \* position of Daemon.Run: "new", "running", "stopped"
    procs,     \* executions in flight: daemon callbacks and manual runs
    locks,     \* flock state of the lock files: file name -> holder (0 = free)
    stable,    \* completed reloads since the job set last changed (capped at 2)
    opts,      \* runner.Options: the workflow and whether a caller's Stdout is attached
    run,       \* runner.Run: position, loop index, summary being built, return value
    fs,        \* the run's artifacts: run directory, run.log, summary.json, copies
    tty,       \* what the attached caller's Stdout received
    invoked,   \* indices of the steps handed to bash, in order
    rw,        \* redactingWriter: the stream fed to it, how much was written, buf
    sink,      \* what the redacting writer (or the echo) forwarded to its io.Writer
    reloadErr, \* what the latest call of Daemon.reload returned: "nil" or "error"
    readded,   \* the job last removed while registered, and whether it came back
    clock,     \* the host's zone, the current instant, the latest trigger dispatched
    cli,       \* the `new` and `run` commands: arguments, position, plan, exit code
    yml,       \* the file <cwd>/.devagent.yml
    environ,   \* os.Environ() of the process: "NAME=value" entries in order
    stepEnv,   \* the environment a step's bash was started with
    disk,      \* run directories: path -> run.log and summary.json in it
    dirRuns    \* runs against the disk: repository, start instant, position

schedVars == <<db, jobs, entries, nextID, daemon, procs, locks, stable>>

runVars == <<opts, run, fs, tty, invoked>>

redVars == <<rw, sink>>

passVars == <<reloadErr, readded>>

cmdVars == <<cli, yml>>

envVars == <<environ, stepEnv>>

dirVars == <<disk, dirRuns>>

vars == <<db, jobs, entries, nextID, daemon, procs, locks, stable,
          opts, run, fs, tty, invoked, rw, sink, reloadErr, readded, clock, cli, yml,
          environ, stepEnv, disk, dirRuns>>

(***************************************************************************)
(* Bounds and input sets                                                   *)
(***************************************************************************)
MaxProcs == 2
MaxEntryID == 3

Procs == 1..MaxProcs

\* Job names as character sequences, in the order ListJobs returns them
\* (ORDER BY name, byte order: "A/b" < "a-b" < "c").
NameOrder == << <<"A", "/", "b">>, <<"a", "-", "b">>, <<"c">> >>

Names == {NameOrder[i] : i \in 1..Len(NameOrder)}

CronSpecs == {"0 9 * * 1-5", "0 7 * * *", "every day"}

(***************************************************************************)
(* Execution lock                                                          *)
(***************************************************************************)
ToLower(c) ==
    IF c = "A" THEN "a" ELSE IF c = "B" THEN "b" ELSE IF c = "C" THEN "c" ELSE c

RECURSIVE Replace(_)
Replace(s) ==
    IF s = <<>> THEN <<>>
    ELSE IF Head(s) \in {" ", "/", "\\", ":"} THEN <<"-">> \o Replace(Tail(s))
    ELSE IF Len(s) >= 2 /\ s[1] = "." /\ s[2] = "." THEN <<"-">> \o Replace(SubSeq(s, 3, Len(s)))
    ELSE <<Head(s)>> \o Replace(Tail(s))

sanitizeName(name) == Replace([i \in 1..Len(name) |-> ToLower(name[i])])

LockFile(name) == sanitizeName(name) \o <<".lock">>

LockFiles == {LockFile(n) : n \in Names}

\* acquireLock with every outcome flock can give: a generic OS failure
\* (oserr), EWOULDBLOCK when another open file holds the lock, success.
acquireLock_NoFlock(name, lk, p, oserr) ==
    IF oserr THEN [res |-> "error", locks |-> lk]
    ELSE [res |-> "ok", locks |-> [lk EXCEPT ![LockFile(name)] = p]]

acquireLock(name, lk, p, oserr) ==
    IF oserr THEN [res |-> "error", locks |-> lk]
    ELSE IF lk[LockFile(name)] # 0 THEN [res |-> "errAlreadyRunning", locks |-> lk]
    ELSE [res |-> "ok", locks |-> [lk EXCEPT ![LockFile(name)] = p]]

releaseLock(name, lk, p) ==
    IF lk[LockFile(name)] = p THEN [lk EXCEPT ![LockFile(name)] = 0] ELSE lk

(***************************************************************************)
(* Job store                                                               *)
(***************************************************************************)
\* What a job row binds to its name: cron spec, timezone, workflow file.  The
\* second to fourth differ from the first in one column each; the last has a
\* cron spec the parser rejects.
JobSpecs == {
    [cron |-> "0 9 * * 1-5", timezone |-> "America/New_York", yamlPath |-> "/w1/.devagent.yml"],
    [cron |-> "0 7 * * *",   timezone |-> "America/New_York", yamlPath |-> "/w1/.devagent.yml"],
    [cron |-> "0 9 * * 1-5", timezone |-> "utc",              yamlPath |-> "/w1/.devagent.yml"],
    [cron |-> "0 9 * * 1-5", timezone |-> "America/New_York", yamlPath |-> "/w2/.devagent.yml"],
    [cron |-> "every day",   timezone |-> "America/New_York", yamlPath |-> "/w1/.devagent.yml"] }

Listing(d) ==
    LET present == SelectSeq(NameOrder, LAMBDA n : n \in DOMAIN d)
    IN  [i \in 1..Len(present) |->
            [name |-> present[i], cron |-> d[present[i]].cron,
             timezone |-> d[present[i]].timezone, yamlPath |-> d[present[i]].yamlPath]]

ListingNames(l) == {l[i].name : i \in 1..Len(l)}

\* INSERT ... ON CONFLICT(name) DO UPDATE: last_status is kept on conflict.
upsert(d, name, cron, timezone, yamlPath) ==
    IF name \in DOMAIN d
    THEN [d EXCEPT ![name].cron = cron, ![name].timezone = timezone,
                   ![name].yamlPath = yamlPath]
    ELSE [n \in DOMAIN d \cup {name} |->
             IF n = name
             THEN [cron |-> cron, timezone |-> timezone, yamlPath |-> yamlPath,
                   lastStatus |-> "none", lastRun |-> "none"]
             ELSE d[n]]

\* No job has been removed while registered (or the tracked one is settled).
NoReadd == [name |-> <<>>, st |-> "none"]

UpsertJob(name, cron, timezone, yamlPath) ==
    /\ db' = upsert(db, name, cron, timezone, yamlPath)
    /\ db' # db
    /\ stable' = 0
    /\ readded' = IF readded.name # name THEN readded
                  ELSE IF name \in DOMAIN jobs /\ entries[jobs[name]].cron = cron THEN NoReadd
                  ELSE [readded EXCEPT !.st = "readded"]
    /\ UNCHANGED <<jobs, entries, nextID, daemon, procs, locks, runVars, redVars,
                   reloadErr, clock, cmdVars, envVars, dirVars>>

RemoveJob(name) ==
    /\ name \in DOMAIN db
    /\ db' = [n \in DOMAIN db \ {name} |-> db[n]]
    /\ stable' = 0
    /\ readded' = IF name \in DOMAIN jobs
                  THEN [name |-> name, st |-> "removed"]
                  ELSE IF readded.name = name THEN NoReadd ELSE readded
    /\ UNCHANGED <<jobs, entries, nextID, daemon, procs, locks, runVars, redVars,
                   reloadErr, clock, cmdVars, envVars, dirVars>>

\* UPDATE jobs SET last_status, last_run WHERE name: no row, no change.
UpdateRunResult(d, name, status, runAt) ==
    IF name \in DOMAIN d
    THEN [d EXCEPT ![name].lastStatus = status, ![name].lastRun = runAt]
    ELSE d

(***************************************************************************)
(* Reconciliation                                                          *)
(***************************************************************************)
ParseOK(cron) == cron \in {"0 9 * * 1-5", "0 7 * * *"}

LowerLetters == "abcdefghijklmnopqrstuvwxyz"

UpperLetters == "ABCDEFGHIJKLMNOPQRSTUVWXYZ"

\* The lower-case letter of every upper-case letter.
LowerOf ==
    [c \in {SubSeq(UpperLetters, k, k) : k \in 1..Len(UpperLetters)} |->
        SubSeq(LowerLetters, CHOOSE k \in 1..Len(UpperLetters) : SubSeq(UpperLetters, k, k) = c,
               CHOOSE k \in 1..Len(UpperLetters) : SubSeq(UpperLetters, k, k) = c)]

LowerChar(c) == IF c \in DOMAIN LowerOf THEN LowerOf[c] ELSE c

RECURSIVE ToLowerString(_)
ToLowerString(str) ==
    IF Len(str) = 0 THEN ""
    ELSE LowerChar(SubSeq(str, 1, 1)) \o ToLowerString(SubSeq(str, 2, Len(str)))

IsSpace(c) == c \in {" ", "\t", "\n"}

RECURSIVE TrimString(_)
TrimString(str) ==
    IF Len(str) = 0 THEN ""
    ELSE IF IsSpace(SubSeq(str, 1, 1)) THEN TrimString(SubSeq(str, 2, Len(str)))
    ELSE IF IsSpace(SubSeq(str, Len(str), Len(str))) THEN TrimString(SubSeq(str, 1, Len(str) - 1))
    ELSE str

\* strings.TrimSpace(strings.ToLower(name)), the value the switch is on.
LowerZone(name) == TrimString(ToLowerString(name))

\* The names time.LoadLocation finds in the zone database.
ZoneDB == {"America/New_York", "Asia/Tokyo"}

ResolveLocation_Untrimmed(name) ==
    IF name \in {"", "local"} THEN "Local"
    ELSE IF name = "utc" THEN "UTC"
    ELSE IF name \in ZoneDB THEN name
    ELSE "Local"

\* time.LoadLocation is given the name as it was passed in.
ResolveLocation(name) ==
    IF LowerZone(name) \in {"", "local"} THEN "Local"
    ELSE IF LowerZone(name) = "utc" THEN "UTC"
    ELSE IF name \in ZoneDB THEN name
    ELSE "Local"

Restrict(f, S) == [x \in S |-> f[x]]

\* A scheduleJob that hands every spec to the engine, parsed or not.
scheduleJob_AnySpec(job, st) ==
    [jobs    |-> [n \in DOMAIN st.jobs \cup {job.name} |->
                    IF n = job.name THEN st.nextID + 1 ELSE st.jobs[n]],
     entries |-> [e \in DOMAIN st.entries \cup {st.nextID + 1} |->
                    IF e = st.nextID + 1
                    THEN [name |-> job.name, cron |-> job.cron,
                          timezone |-> job.timezone, yamlPath |-> job.yamlPath,
                          loc |-> ResolveLocation(job.timezone)]
                    ELSE st.entries[e]],
     nextID  |-> st.nextID + 1]

\* st is the daemon's registration state [jobs, entries, nextID].  The entry
\* holds what the callback captures: the job descriptor and its location.
scheduleJob(job, st) ==
    IF ~ParseOK(job.cron) THEN st
    ELSE [jobs    |-> [n \in DOMAIN st.jobs \cup {job.name} |->
                          IF n = job.name THEN st.nextID + 1 ELSE st.jobs[n]],
          entries |-> [e \in DOMAIN st.entries \cup {st.nextID + 1} |->
                          IF e = st.nextID + 1
                          THEN [name |-> job.name, cron |-> job.cron,
                                timezone |-> job.timezone, yamlPath |-> job.yamlPath,
                                loc |-> ResolveLocation(job.timezone)]
                          ELSE st.entries[e]],
          nextID  |-> st.nextID + 1]

RECURSIVE addMissing_Always(_, _)
addMissing_Always(listing, st) ==
    IF listing = <<>> THEN st
    ELSE addMissing_Always(Tail(listing), scheduleJob(Head(listing), st))

RECURSIVE addMissing_Resync(_, _)
addMissing_Resync(listing, st) ==
    IF listing = <<>> THEN st
    ELSE IF /\ Head(listing).name \in DOMAIN st.jobs
            /\ st.entries[st.jobs[Head(listing).name]].cron = Head(listing).cron
            /\ st.entries[st.jobs[Head(listing).name]].timezone = Head(listing).timezone
            /\ st.entries[st.jobs[Head(listing).name]].yamlPath = Head(listing).yamlPath
         THEN addMissing_Resync(Tail(listing), st)
         ELSE addMissing_Resync(Tail(listing), scheduleJob(Head(listing), st))

RECURSIVE addMissing_StopOnError(_, _)
addMissing_StopOnError(listing, st) ==
    IF listing = <<>> THEN st
    ELSE IF Head(listing).name \in DOMAIN st.jobs
         THEN addMissing_StopOnError(Tail(listing), st)
         ELSE IF ~ParseOK(Head(listing).cron) THEN st
         ELSE addMissing_StopOnError(Tail(listing), scheduleJob(Head(listing), st))

RECURSIVE addMissing(_, _)
addMissing(listing, st) ==
    IF listing = <<>> THEN st
    ELSE IF Head(listing).name \in DOMAIN st.jobs
         THEN addMissing(Tail(listing), st)
         ELSE addMissing(Tail(listing), scheduleJob(Head(listing), st))

removeGone_Keep(listing, st) == st

removeGone(listing, st) ==
    LET existing == DOMAIN st.jobs \ ListingNames(listing)
        keep     == DOMAIN st.jobs \ existing
    IN  [jobs    |-> Restrict(st.jobs, keep),
         entries |-> Restrict(st.entries, DOMAIN st.entries \ {st.jobs[n] : n \in existing}),
         nextID  |-> st.nextID]

\* The stale names are computed from d.jobs as it was when the pass began;
\* names added by the pass are in the listing, so the result is the same.
reload(listing, st) == removeGone(listing, addMissing(listing, st))

\* A reload that goes on with an empty listing when the store cannot be read.
Reload_DropOnError(ok) ==
    LET listing == IF ok THEN Listing(db) ELSE <<>>
        st      == reload(listing, [jobs |-> jobs, entries |-> entries, nextID |-> nextID])
    IN  /\ st.nextID <= MaxEntryID
        /\ jobs' = st.jobs
        /\ entries' = st.entries
        /\ nextID' = st.nextID
        /\ stable' = IF ~ok THEN stable ELSE IF stable < 2 THEN stable + 1 ELSE 2
        /\ reloadErr' = IF ok THEN "nil" ELSE "error"
        /\ readded' = IF ok /\ readded.st = "readded" THEN NoReadd ELSE readded

\* One call of Daemon.reload: the listing fails (ok = FALSE) or the pass runs.
Reload(ok) ==
    IF ~ok
    THEN /\ reloadErr' = "error"
         /\ UNCHANGED <<jobs, entries, nextID, stable, readded>>
    ELSE LET listing == Listing(db)
             st      == reload(listing, [jobs |-> jobs, entries |-> entries, nextID |-> nextID])
         IN  /\ st.nextID <= MaxEntryID
             /\ jobs' = st.jobs
             /\ entries' = st.entries
             /\ nextID' = st.nextID
             /\ stable' = IF stable < 2 THEN stable + 1 ELSE 2
             /\ reloadErr' = "nil"
             /\ readded' = IF readded.st = "readded" THEN NoReadd ELSE readded

\* An execution slot between two callbacks.
Idle == [pc |-> "idle", kind |-> "none", name |-> <<>>, result |-> "none"]

DaemonStart(ok) ==
    /\ daemon = "new"
    /\ daemon' = "running"
    /\ Reload(ok)
    /\ UNCHANGED <<db, procs, locks, runVars, redVars, clock, cmdVars, envVars, dirVars>>

\* A pass that also ends the executions of the jobs it leaves unregistered.
Tick_Interrupts(ok) ==
    /\ daemon = "running"
    /\ Reload(ok)
    /\ procs' = [p \in Procs |->
                    IF procs[p].kind = "daemon" /\ procs[p].name \notin DOMAIN jobs'
                    THEN Idle ELSE procs[p]]
    /\ locks' = [f \in LockFiles |->
                    IF locks[f] # 0 /\ procs'[locks[f]] = Idle THEN 0 ELSE locks[f]]
    /\ UNCHANGED <<db, daemon, runVars, redVars, clock, cmdVars, envVars, dirVars>>

Tick(ok) ==
    /\ daemon = "running"
    /\ Reload(ok)
    /\ UNCHANGED <<db, daemon, procs, locks, runVars, redVars, clock, cmdVars, envVars, dirVars>>

Cancel ==
    /\ daemon = "running"
    /\ daemon' = "stopped"
    /\ UNCHANGED <<db, jobs, entries, nextID, procs, locks, stable, runVars, redVars, passVars, clock, cmdVars, envVars, dirVars>>

(***************************************************************************)
(* Executions                                                              *)
(***************************************************************************)
InCS(p) == procs[p].pc \in {"load", "run", "persist", "release"}

\* The cron engine fires the callback of a registered entry.
Fire(p, e) ==
    /\ daemon = "running"
    /\ e \in DOMAIN entries
    /\ procs[p].pc = "idle"
    /\ procs' = [procs EXCEPT ![p] = [Idle EXCEPT !.pc = "acquire", !.kind = "daemon",
                                                  !.name = entries[e].name]]
    /\ UNCHANGED <<db, jobs, entries, nextID, daemon, locks, stable, runVars, redVars, passVars, clock, cmdVars, envVars, dirVars>>

Holder(name) ==
    IF locks[LockFile(name)] = 0 THEN <<>> ELSE procs[locks[LockFile(name)]].name

Acquire(p, oserr) ==
    /\ procs[p].pc = "acquire"
    /\ LET r == acquireLock(procs[p].name, locks, p, oserr)
       IN  /\ locks' = r.locks
           /\ procs' = [procs EXCEPT ![p] =
                  IF r.res = "ok" THEN [@ EXCEPT !.pc = "load"]
                  ELSE IF r.res = "errAlreadyRunning"
                       THEN [@ EXCEPT !.pc = "skipped"]
                       ELSE [@ EXCEPT !.pc = "lockerr"]]
    /\ UNCHANGED <<db, jobs, entries, nextID, daemon, stable, runVars, redVars, passVars, clock, cmdVars, envVars, dirVars>>

\* An execute that tries the lock again instead of returning.
Return_Retry(p) ==
    /\ procs[p].pc \in {"skipped", "lockerr"}
    /\ procs' = [procs EXCEPT ![p] = [@ EXCEPT !.pc = "acquire"]]
    /\ UNCHANGED <<db, jobs, entries, nextID, daemon, locks, stable, runVars, redVars, passVars, clock, cmdVars, envVars, dirVars>>

\* execute returns after logging the skip or the lock error.
Return(p) ==
    /\ procs[p].pc \in {"skipped", "lockerr"}
    /\ procs' = [procs EXCEPT ![p] = Idle]
    /\ UNCHANGED <<db, jobs, entries, nextID, daemon, locks, stable, runVars, redVars, passVars, clock, cmdVars, envVars, dirVars>>

\* doRun: the manual run of the workflow named n; it takes no lock.
ManualStart(p, n) ==
    /\ procs[p].pc = "idle"
    /\ procs' = [procs EXCEPT ![p] = [Idle EXCEPT !.pc = "load", !.kind = "manual", !.name = n]]
    /\ UNCHANGED <<db, jobs, entries, nextID, daemon, locks, stable, runVars, redVars, passVars, clock, cmdVars, envVars, dirVars>>

\* An execute that records a workflow that does not load as a failed run.
Load_MarksFailed(p, ok) ==
    /\ procs[p].pc = "load"
    /\ procs' = [procs EXCEPT ![p] =
           IF ok THEN [@ EXCEPT !.pc = "run"]
           ELSE IF @.kind = "daemon" THEN [@ EXCEPT !.pc = "release"] ELSE Idle]
    /\ db' = IF ok THEN db ELSE UpdateRunResult(db, procs[p].name, "failed", clock.now)
    /\ UNCHANGED <<jobs, entries, nextID, daemon, locks, stable, runVars, redVars, passVars, clock, cmdVars, envVars, dirVars>>

Load(p, ok) ==
    /\ procs[p].pc = "load"
    /\ procs' = [procs EXCEPT ![p] =
           IF ok THEN [@ EXCEPT !.pc = "run"]
           ELSE IF @.kind = "daemon" THEN [@ EXCEPT !.pc = "release"] ELSE Idle]
    /\ UNCHANGED <<db, jobs, entries, nextID, daemon, locks, stable, runVars, redVars, passVars, clock, cmdVars, envVars, dirVars>>

\* An execute that lets go of the lock as soon as runner.Run has returned.
RunWorkflow_ReleaseEarly(p, res) ==
    /\ procs[p].pc = "run"
    /\ res \in {"success", "failed", "error"}
    /\ procs' = [procs EXCEPT ![p] = [@ EXCEPT !.pc = "persist", !.result = res]]
    /\ locks' = IF procs[p].kind = "daemon" THEN releaseLock(procs[p].name, locks, p) ELSE locks
    /\ UNCHANGED <<db, jobs, entries, nextID, daemon, stable, runVars, redVars, passVars, clock, cmdVars, envVars, dirVars>>

\* runner.Run from its first step to its return.
RunWorkflow(p, res) ==
    /\ procs[p].pc = "run"
    /\ res \in {"success", "failed", "error"}
    /\ procs' = [procs EXCEPT ![p] = [@ EXCEPT !.pc = "persist", !.result = res]]
    /\ UNCHANGED <<db, jobs, entries, nextID, daemon, locks, stable, runVars, redVars, passVars, clock, cmdVars, envVars, dirVars>>

Persist(p) ==
    /\ procs[p].pc = "persist"
    /\ IF procs[p].kind = "daemon"
       THEN /\ db' = UpdateRunResult(db, procs[p].name,
                        IF procs[p].result = "error" THEN "failed" ELSE procs[p].result,
                        clock.now)
            /\ procs' = [procs EXCEPT ![p] = [@ EXCEPT !.pc = "release", !.result = "none"]]
       ELSE /\ db' = IF procs[p].result = "error" THEN db
                     ELSE UpdateRunResult(db, procs[p].name, procs[p].result, clock.now)
            /\ procs' = [procs EXCEPT ![p] = Idle]
    /\ UNCHANGED <<jobs, entries, nextID, daemon, locks, stable, runVars, redVars, passVars, clock, cmdVars, envVars, dirVars>>

Release(p) ==
    /\ procs[p].pc = "release"
    /\ locks' = releaseLock(procs[p].name, locks, p)
    /\ procs' = [procs EXCEPT ![p] = Idle]
    /\ UNCHANGED <<db, jobs, entries, nextID, daemon, stable, runVars, redVars, passVars, clock, cmdVars, envVars, dirVars>>

\* doDaemon returns as soon as Daemon.Run has returned, and with it main: the
\* process ends, its callbacks in flight end with it wherever they stand, and
\* the kernel drops the locks of the files the process had open.
Exit ==
    /\ daemon = "stopped"
    /\ daemon' = "exited"
    /\ procs' = [p \in Procs |-> IF procs[p].kind = "daemon" THEN Idle ELSE procs[p]]
    /\ locks' = [f \in LockFiles |->
                    IF locks[f] # 0 /\ procs[locks[f]].kind = "daemon" THEN 0 ELSE locks[f]]
    /\ UNCHANGED <<db, jobs, entries, nextID, stable, runVars, redVars, passVars, clock, cmdVars, envVars, dirVars>>

(***************************************************************************)
(* The cron engine and the clock.  Instants are whole hours of one week,    *)
(* counted from Monday 00:00 UTC; zones have fixed offsets (New York is     *)
(* taken at standard time).                                                 *)
(***************************************************************************)
WeekHours == 7 * 24

HostZones == {"UTC", "America/New_York", "Asia/Tokyo"}

TimezoneNames == {"America/New_York", "Asia/Tokyo", "utc", " UTC\t", "Local", " local ", "",
                  "  ", "Mars/Phobos", " Asia/Tokyo"}

ZoneOffset(zone) ==
    IF zone = "America/New_York" THEN 0 - 5
    ELSE IF zone = "Asia/Tokyo" THEN 9
    ELSE 0

\* The wall clock at instant t in location loc, on a host whose time.Local is
\* the zone host: day 0..6 from Monday, hour 0..23.
WallClock(loc, host, t) ==
    LET zone == IF loc = "Local" THEN host ELSE loc
        h    == (t + ZoneOffset(zone) + WeekHours) % WeekHours
    IN  [day |-> h \div 24, hour |-> h % 24]

\* The schedule the five-field parser gives for a cron spec, at minute 0.
cronMatches(cron, wall) ==
    IF cron = "0 9 * * 1-5" THEN wall.hour = 9 /\ wall.day \in 0..4
    ELSE IF cron = "0 7 * * *" THEN wall.hour = 7
    ELSE FALSE

\* The location in which the engine reads an entry's schedule: a schedule
\* parsed from the bare five fields carries time.Local, and cron.New() runs
\* on time.Local; the job's own location is handed to the callback only.
EngineLocation(entry) == "Local"

\* The hour passes.
Advance ==
    /\ daemon = "running"
    /\ clock' = [clock EXCEPT !.now = (@ + 1) % WeekHours]
    /\ UNCHANGED <<schedVars, runVars, redVars, passVars, cmdVars, envVars, dirVars>>

\* The engine finds entry e due and starts its callback.
Dispatch(e) ==
    /\ daemon = "running"
    /\ e \in DOMAIN entries
    /\ cronMatches(entries[e].cron, WallClock(EngineLocation(entries[e]), clock.host, clock.now))
    /\ clock' = [clock EXCEPT !.fired = [name |-> entries[e].name, cron |-> entries[e].cron,
                                         timezone |-> entries[e].timezone,
                                         loc |-> entries[e].loc, at |-> clock.now]]
    /\ UNCHANGED <<schedVars, runVars, redVars, passVars, cmdVars, envVars, dirVars>>

(***************************************************************************)
(* Text.  Command text and output are sequences of symbols: a symbol is a  *)
(* whitespace character, "=", or a word without whitespace and "=".        *)
(***************************************************************************)
MaxSteps == 3
MaxStream == 5

WS(c) == c \in {" ", "\n", "\t"}

RECURSIVE TrimLeft(_)
TrimLeft(s) == IF s # <<>> /\ WS(Head(s)) THEN TrimLeft(Tail(s)) ELSE s

RECURSIVE TrimRight(_)
TrimRight(s) ==
    IF s # <<>> /\ WS(s[Len(s)]) THEN TrimRight(SubSeq(s, 1, Len(s) - 1)) ELSE s

TrimSpace(s) == TrimRight(TrimLeft(s))

RECURSIVE TrimRightNewlines(_)
TrimRightNewlines(s) ==
    IF s # <<>> /\ s[Len(s)] = "\n" THEN TrimRightNewlines(SubSeq(s, 1, Len(s) - 1)) ELSE s

(***************************************************************************)
(* Redaction                                                               *)
(***************************************************************************)
Placeholder == "<redacted>"

LowerWord(w) ==
    IF w \in {"Token", "TOKEN"} THEN "token"
    ELSE IF w \in {"Secret", "SECRET"} THEN "secret"
    ELSE IF w \in {"Api_Key", "API_KEY"} THEN "api_key"
    ELSE IF w \in {"Api-Key", "API-KEY"} THEN "api-key"
    ELSE IF w \in {"ApiKey", "APIKEY"} THEN "apikey"
    ELSE w

\* The group (api[_-]?key|token|secret) of redactionPattern, without (?i).
matchKey_CaseSensitive(w) == w \in {"api_key", "api-key", "apikey", "token", "secret"}

\* The group (api[_-]?key|token|secret) of redactionPattern under (?i).
matchKey(w) == LowerWord(w) \in {"api_key", "api-key", "apikey", "token", "secret"}

\* redactionPattern matches at the head of s: key, "=", one non-space at least.
MatchAtHead(s) == Len(s) >= 3 /\ matchKey(s[1]) /\ s[2] = "=" /\ ~WS(s[3])

\* What is left of s after the greedy \S+ that begins at its head.
RECURSIVE SkipNonSpace(_)
SkipNonSpace(s) == IF s # <<>> /\ ~WS(Head(s)) THEN SkipNonSpace(Tail(s)) ELSE s

\* ReplaceAllString: leftmost matches, left to right, never overlapping.
RECURSIVE redact(_)
redact(s) ==
    IF s = <<>> THEN <<>>
    ELSE IF MatchAtHead(s)
         THEN <<s[1], "=", Placeholder>> \o redact(SkipNonSpace(SubSeq(s, 3, Len(s))))
         ELSE <<Head(s)>> \o redact(Tail(s))

IndexNewline(s) ==
    IF \E i \in 1..Len(s) : s[i] = "\n"
    THEN CHOOSE i \in 1..Len(s) : s[i] = "\n" /\ \A j \in 1..(i - 1) : s[j] # "\n"
    ELSE 0

\* A flushLines that forwards one line and returns.
flushLines_Once(w) ==
    IF IndexNewline(w.buf) = 0 THEN w
    ELSE [buf |-> SubSeq(w.buf, IndexNewline(w.buf) + 1, Len(w.buf)),
          out |-> w.out \o redact(SubSeq(w.buf, 1, IndexNewline(w.buf) - 1)) \o <<"\n">>]

\* w is the writer's state [buf, out]: its buffer and what it has forwarded.
RECURSIVE flushLines(_)
flushLines(w) ==
    LET idx == IndexNewline(w.buf)
    IN  IF idx = 0 THEN w
        ELSE flushLines([buf |-> SubSeq(w.buf, idx + 1, Len(w.buf)),
                         out |-> w.out \o redact(SubSeq(w.buf, 1, idx - 1)) \o <<"\n">>])

writerWrite(w, chunk) == flushLines([buf |-> w.buf \o chunk, out |-> w.out])

writerFlush(w) ==
    IF w.buf = <<>> THEN w
    ELSE [buf |-> <<>>, out |-> w.out \o redact(TrimRightNewlines(w.buf)) \o <<"\n">>]

\* fmt.Fprintf(outputWriter, "$ %s\n", redact(cmdText))
echoLine(cmdText) == <<"$", " ">> \o redact(cmdText) \o <<"\n">>

(***************************************************************************)
(* Step runner                                                             *)
(***************************************************************************)
\* The steps a workflow is drawn from: command text, how bash ends (launch
\* failure, or exit code) and what the command prints.
StepPool == {
    [run |-> <<" ">>, launch |-> FALSE, code |-> 0, out |-> <<>>],
    [run |-> <<"make">>, launch |-> FALSE, code |-> 0, out |-> <<"ok", "\n">>],
    [run |-> <<" ", "pytest", " ">>, launch |-> FALSE, code |-> 2, out |-> <<"FAILED">>],
    [run |-> <<"deploy", " ", "token", "=", "ABC123">>, launch |-> FALSE, code |-> 0,
     out |-> <<"using", " ", "SECRET", "=", "xyz", "\n", "sent">>],
    [run |-> <<"curl", " ", "api_key", "=", "sk-test">>, launch |-> FALSE, code |-> 1,
     out |-> <<>>],
    [run |-> <<"make">>, launch |-> TRUE, code |-> 0, out |-> <<>>] }

Workflows(n) == UNION {[1..k -> StepPool] : k \in 0..n}

\* Outputs.CopyIfExists candidates; the repository holds out/report.txt and
\* the build/summary.json of some tool, and no missing.txt.
OutputChoices == { <<>>, <<"out/report.txt", " ", "missing.txt">>,
                   <<"missing.txt", "build/summary.json">> }

RepoFiles == {"out/report.txt", "build/summary.json"}

\* filepath.Base
Base(path) ==
    IF path = "out/report.txt" THEN "report.txt"
    ELSE IF path = "build/summary.json" THEN "summary.json"
    ELSE path

\* What a file of the repository named summary.json holds: not a RunSummary.
ForeignSummary == [status |-> "foreign", steps |-> <<>>]

NilWorkflow == [nil |-> TRUE, repoOK |-> FALSE, steps |-> <<>>, outputs |-> <<>>]

\* StartedAt and EndedAt are readings of the wall clock (time.Now().UTC()
\* carries no monotonic reading).
NoSummary == [status |-> "success", steps |-> <<>>, startedAt |-> 0, endedAt |-> 0]

\* summaries is what was written to summary.json of the run directory, in
\* order; copied the names of the copies there; copyFailed the candidates
\* whose copy failed.
NoFiles == [runDir |-> FALSE, logCreated |-> FALSE, log |-> <<>>, summaries |-> <<>>,
            copied |-> {}, copyFailed |-> {}]

\* opts.Workflow is there, ExpandRepo succeeds and os.Stat finds the path.
repoAccessible_NoStat(w) == ~w.nil

repoAccessible(w) == ~w.nil /\ w.repoOK

\* `if err != nil { status = "failed"; break }` after a step was recorded.
stepFailed_Never(code) == FALSE

stepFailed(code) == code # 0

writeSummary(files, summary) == [files EXCEPT !.summaries = Append(@, summary)]

Returned(err) ==
    [run EXCEPT !.pc = "returned", !.ret = IF err = "none" THEN "summary" ELSE "error",
                !.err = err]

\* From the entry of runner.Run to the first iteration of the step loop.
RunBegin(io) ==
    /\ run.pc = "start"
    /\ io \in {"ok", "mkdir", "create"}
    /\ IF ~repoAccessible(opts.workflow)
       THEN /\ run' = Returned("validation")
            /\ UNCHANGED fs
       ELSE IF io = "mkdir"
       THEN /\ run' = Returned("mkdir")
            /\ UNCHANGED fs
       ELSE IF io = "create"
       THEN /\ run' = Returned("create")
            /\ fs' = [fs EXCEPT !.runDir = TRUE]
       ELSE /\ run' = [run EXCEPT !.pc = IF opts.workflow.steps = <<>> THEN "finish" ELSE "steps",
                                  !.i = 1,
                                  !.summary.startedAt = clock.now]
            /\ fs' = [fs EXCEPT !.runDir = TRUE, !.logCreated = TRUE, !.log = <<>>]
    /\ UNCHANGED <<opts, tty, invoked, schedVars, redVars, passVars, clock, cmdVars, envVars, dirVars>>

\* A loop that skips no step.
emptyStep_Never(cmdText) == FALSE

\* `if cmdText == "" { continue }`
emptyStep(cmdText) == cmdText = <<>>

AfterStep(i) == IF i >= Len(opts.workflow.steps) THEN "finish" ELSE "steps"

\* One iteration of the step loop.
RunStep(flushOK) ==
    /\ run.pc = "steps"
    /\ LET step    == opts.workflow.steps[run.i]
           cmdText == TrimSpace(step.run)
           echo    == echoLine(cmdText)
           written == writerWrite([buf |-> <<>>, out |-> <<>>], step.out)
           flushed == writerFlush(written)
           shown   == IF flushOK THEN flushed.out ELSE written.out
       IN  IF emptyStep(cmdText)
           THEN /\ run' = [run EXCEPT !.pc = AfterStep(run.i), !.i = @ + 1]
                /\ UNCHANGED <<fs, tty, invoked>>
           ELSE /\ invoked' = Append(invoked, run.i)
                /\ IF step.launch
                   THEN /\ run' = Returned("launch")
                        /\ fs' = [fs EXCEPT !.log = @ \o echo]
                        /\ tty' = IF opts.stdout THEN tty \o echo ELSE tty
                   ELSE /\ fs' = [fs EXCEPT !.log = @ \o echo \o shown]
                        /\ tty' = IF opts.stdout THEN tty \o echo \o shown ELSE tty
                        /\ IF ~flushOK
                           THEN run' = Returned("flush")
                           ELSE run' = [run EXCEPT
                                  !.summary.steps = Append(@, [cmd |-> cmdText,
                                                               exitCode |-> step.code]),
                                  !.summary.status = IF stepFailed(step.code) THEN "failed" ELSE @,
                                  !.pc = IF stepFailed(step.code) THEN "finish"
                                         ELSE AfterStep(run.i),
                                  !.i = @ + 1]
    /\ (~flushOK => writerWrite([buf |-> <<>>, out |-> <<>>],
                                opts.workflow.steps[run.i].out).buf # <<>>)
    /\ UNCHANGED <<opts, schedVars, redVars, passVars, clock, cmdVars, envVars, dirVars>>

\* The candidates of the workflow, trimmed, that os.Stat finds in the
\* repository.
Candidates ==
    {c \in {opts.workflow.outputs[k] : k \in 1..Len(opts.workflow.outputs)} :
        TrimSpace(<<c>>) # <<>> /\ c \in RepoFiles}

\* A capture whose failing copy is an error of the run.
captureErr_Fatal(failing) == IF Candidates \cap failing # {} THEN "copy" ELSE "none"

\* `_ = copyFile(src, dst)`: the error of a copy is dropped.
captureErr(failing) == "none"

\* copyFile of every candidate found, except those whose copy fails: the
\* file is written in the run directory under its base name, over whatever
\* has that name there.
copyOutputs(files, failing) ==
    [files EXCEPT
       !.copied = {Base(c) : c \in Candidates \ failing},
       !.copyFailed = Candidates \cap failing,
       !.summaries = IF "summary.json" \in {Base(c) : c \in Candidates \ failing}
                     THEN Append(@, ForeignSummary) ELSE @]

\* After the loop: the summary is written, the outputs are copied, Run returns.
RunFinish(writeOK, failing) ==
    /\ run.pc = "finish"
    /\ failing \subseteq RepoFiles
    /\ IF ~writeOK
       THEN /\ run' = Returned("write")
            /\ UNCHANGED fs
       ELSE /\ run' = [Returned(captureErr(failing)) EXCEPT !.summary.endedAt = clock.now]
            /\ fs' = copyOutputs(writeSummary(fs, [run.summary EXCEPT !.endedAt = clock.now]),
                                 failing)
    /\ UNCHANGED <<opts, tty, invoked, schedVars, redVars, passVars, clock, cmdVars, envVars, dirVars>>

\* The wall clock of the host comes to read t: time has passed, or the
\* clock was set (settimeofday, a step of the time daemon).
WallInstants == {0, 1, 2}

WallStep(t) ==
    /\ t \in WallInstants
    /\ t # clock.now
    /\ clock' = [clock EXCEPT !.now = t]
    /\ UNCHANGED <<schedVars, runVars, redVars, passVars, cmdVars, envVars, dirVars>>

(***************************************************************************)
(* The redacting writer on its own, and the echo of a command              *)
(***************************************************************************)
Alphabet == {"Token", "api-key", "=", " ", "\n", "v"}

Streams(n) == UNION {[1..k -> Alphabet] : k \in 0..n}

\* redactingWriter.Write of the next k symbols of the stream.
Write(k) ==
    /\ rw.phase = "write"
    /\ k >= 1
    /\ rw.pos + k <= Len(rw.in)
    /\ LET w == writerWrite([buf |-> rw.buf, out |-> sink],
                            SubSeq(rw.in, rw.pos + 1, rw.pos + k))
       IN  /\ rw' = [rw EXCEPT !.pos = @ + k, !.buf = w.buf]
           /\ sink' = w.out
    /\ UNCHANGED <<schedVars, runVars, passVars, clock, cmdVars, envVars, dirVars>>

\* redactingWriter.Flush once the command has ended.
Flush ==
    /\ rw.phase = "write"
    /\ rw.pos = Len(rw.in)
    /\ LET w == writerFlush([buf |-> rw.buf, out |-> sink])
       IN  /\ rw' = [rw EXCEPT !.phase = "done", !.buf = w.buf]
           /\ sink' = w.out
    /\ UNCHANGED <<schedVars, runVars, passVars, clock, cmdVars, envVars, dirVars>>

\* The stream is the text of a step: it is trimmed and, unless empty, echoed.
Echo ==
    /\ rw.phase = "echo"
    /\ rw' = [rw EXCEPT !.phase = "done"]
    /\ sink' = IF TrimSpace(rw.in) = <<>> THEN <<>> ELSE echoLine(TrimSpace(rw.in))
    /\ UNCHANGED <<schedVars, runVars, passVars, clock, cmdVars, envVars, dirVars>>

(***************************************************************************)
(* The environment of a step                                               *)
(***************************************************************************)
MaxEnv == 3

\* Entries of os.Environ(): names in several letter cases, a value that holds
\* "KEY" under a harmless name, names that merely contain one of the words,
\* and an entry without "=".
EnvPool == {"PATH=/bin", "OPTS=--key=KEY", "API_KEY=abc", "github_token=t",
            "MySecret=s", "MONKEY=1", "TOKEN"}

UpperChar(c) ==
    IF \E k \in 1..Len(LowerLetters) : SubSeq(LowerLetters, k, k) = c
    THEN SubSeq(UpperLetters, CHOOSE k \in 1..Len(LowerLetters) : SubSeq(LowerLetters, k, k) = c,
                CHOOSE k \in 1..Len(LowerLetters) : SubSeq(LowerLetters, k, k) = c)
    ELSE c

RECURSIVE ToUpper(_)
ToUpper(str) ==
    IF Len(str) = 0 THEN ""
    ELSE UpperChar(SubSeq(str, 1, 1)) \o ToUpper(SubSeq(str, 2, Len(str)))

Contains(str, sub) ==
    \E i \in 1..(Len(str) - Len(sub) + 1) : SubSeq(str, i, i + Len(sub) - 1) = sub

\* strings.SplitN(kv, "=", 2)[0]: what stands before the first "=", or all.
SplitKey(kv) ==
    IF Contains(kv, "=")
    THEN SubSeq(kv, 1, (CHOOSE i \in 1..Len(kv) :
                          /\ SubSeq(kv, i, i) = "="
                          /\ \A j \in 1..(i - 1) : SubSeq(kv, j, j) # "=") - 1)
    ELSE kv

scrubbed(kv) ==
    \/ Contains(ToUpper(SplitKey(kv)), "SECRET")
    \/ Contains(ToUpper(SplitKey(kv)), "TOKEN")
    \/ Contains(ToUpper(SplitKey(kv)), "KEY")

\* The slice sanitizedEnv returns; it is nil, here <<>>, when nothing was
\* appended to it.
sanitizedEnv(env) == SelectSeq(env, LAMBDA kv : ~scrubbed(kv))

\* The environment of the process exec starts for a Cmd: Cmd.Env, and the
\* environment of the current process when Cmd.Env is nil.
cmdEnviron(cmdEnv, env) == IF cmdEnv = <<>> THEN env ELSE cmdEnv

\* cmd.Env = sanitizedEnv() and cmd.Run() for a step.
StartStep ==
    /\ ~stepEnv.started
    /\ stepEnv' = [started |-> TRUE, env |-> cmdEnviron(sanitizedEnv(environ), environ)]
    /\ UNCHANGED <<environ, schedVars, runVars, redVars, passVars, clock, cmdVars, dirVars>>

(***************************************************************************)
(* Run directories.  Instants are counted in ticks of half a second from   *)
(* the start of an hour; a file is the sequence of the lines in it, each   *)
(* naming the run that wrote it (0: a hole left by a truncation).          *)
(***************************************************************************)
MaxRuns == 2
MaxLines == 2
TicksPerSecond == 2

Repos == {"/srv/app", "/srv/lib"}

Instants == {0, 1, 2, 118, 119, 120}

Pad2(n) == IF n < 10 THEN "0" \o ToString(n) ELSE ToString(n)

SecondOf(t) == t \div TicksPerSecond

Timestamp_SubSecond(t) ==
    "2026-01-01T00-" \o Pad2((SecondOf(t) \div 60) % 60) \o "-" \o Pad2(SecondOf(t) % 60)
        \o "." \o ToString(t % TicksPerSecond) \o "Z"

\* time.Now().UTC().Format("2006-01-02T15-04-05Z") of the instant t.
Timestamp(t) ==
    "2026-01-01T00-" \o Pad2((SecondOf(t) \div 60) % 60) \o "-" \o Pad2(SecondOf(t) % 60) \o "Z"

runDir(repo, t) == repo \o "/devagent_runs/" \o Timestamp(t)

Holes(n) == [k \in 1..n |-> 0]

\* A write of one line through a descriptor whose offset is off.
WriteAt(file, off, who) ==
    IF off < Len(file) THEN [file EXCEPT ![off + 1] = who]
    ELSE file \o Holes(off - Len(file)) \o <<who>>

\* os.MkdirAll keeps a directory that exists; os.Create truncates run.log.
createLog(d) ==
    IF d \in DOMAIN disk THEN [disk EXCEPT ![d].log = <<>>]
    ELSE disk @@ (d :> [log |-> <<>>, summary |-> 0])

\* runner.Run up to the creation of run.log, at instant t.
StartRun(repo, t) ==
    /\ Len(dirRuns) < MaxRuns
    /\ Len(dirRuns) > 0 => t >= dirRuns[Len(dirRuns)].start
    /\ dirRuns' = Append(dirRuns, [repo |-> repo, start |-> t, dir |-> runDir(repo, t),
                                   off |-> 0, pc |-> "open"])
    /\ disk' = createLog(runDir(repo, t))
    /\ UNCHANGED <<schedVars, runVars, redVars, passVars, clock, cmdVars, envVars>>

\* A line of the run's output reaches run.log.
WriteLog(i) ==
    /\ i \in DOMAIN dirRuns
    /\ dirRuns[i].pc = "open"
    /\ dirRuns[i].off < MaxLines
    /\ disk' = [disk EXCEPT ![dirRuns[i].dir].log = WriteAt(@, dirRuns[i].off, i)]
    /\ dirRuns' = [dirRuns EXCEPT ![i].off = @ + 1]
    /\ UNCHANGED <<schedVars, runVars, redVars, passVars, clock, cmdVars, envVars>>

\* writeSummary: os.WriteFile replaces summary.json; Run returns.
FinishRun(i) ==
    /\ i \in DOMAIN dirRuns
    /\ dirRuns[i].pc = "open"
    /\ disk' = [disk EXCEPT ![dirRuns[i].dir].summary = i]
    /\ dirRuns' = [dirRuns EXCEPT ![i].pc = "done"]
    /\ UNCHANGED <<schedVars, runVars, redVars, passVars, clock, cmdVars, envVars>>

(***************************************************************************)
(* Planner.  The text of a specification is a sequence of tokens: words,   *)
(* numbers, paths, " " for a run of whitespace, ";" and ":".                *)
(***************************************************************************)
SlugMax == 40

LowerTok(tok) ==
    IF tok = "PM" THEN "pm" ELSE IF tok = "AM" THEN "am"
    ELSE IF tok = "Every" THEN "every" ELSE IF tok = "Run" THEN "run"
    ELSE IF tok = "Summarize" THEN "summarize" ELSE tok

Lowered(t) == [i \in 1..Len(t) |-> LowerTok(t[i])]

\* \d{1,2} and \d{2}: the tokens of one or two digits, and strconv.Atoi.
IsDigits(tok) == \E n \in 0..99 : tok = ToString(n) \/ (n < 10 /\ tok = "0" \o ToString(n))

Atoi(tok) == CHOOSE n \in 0..99 : tok = ToString(n) \/ (n < 10 /\ tok = "0" \o ToString(n))

At(t, i) == IF i \in 1..Len(t) THEN t[i] ELSE ""

\* every\s+<dayWord>\s+at\s+(\d{1,2}) matches t from token i on.
PatternAt(t, i, dayWord) ==
    /\ At(t, i) = "every" /\ At(t, i + 1) = " " /\ At(t, i + 2) = dayWord
    /\ At(t, i + 3) = " " /\ At(t, i + 4) = "at" /\ At(t, i + 5) = " "
    /\ IsDigits(At(t, i + 6))

\* The groups of the match that starts at token i: the hour, (?::(\d{2}))?
\* and \s*(am|pm)?.
Submatch(t, i) ==
    LET hasM  == At(t, i + 7) = ":" /\ IsDigits(At(t, i + 8)) /\ Len(At(t, i + 8)) = 2
        after == IF hasM THEN i + 9 ELSE i + 7
    IN  [ok |-> TRUE,
         g1 |-> At(t, i + 6),
         g2 |-> IF hasM THEN At(t, i + 8) ELSE "",
         g3 |-> IF At(t, after) \in {"am", "pm"} THEN At(t, after)
                ELSE IF At(t, after) = " " /\ At(t, after + 1) \in {"am", "pm"}
                     THEN At(t, after + 1)
                     ELSE ""]

\* FindStringSubmatch: the leftmost match and its groups 1 to 3, or no match.
FindSubmatch(t, dayWord) ==
    IF ~\E i \in 1..Len(t) : PatternAt(t, i, dayWord) THEN [ok |-> FALSE]
    ELSE Submatch(t, CHOOSE k \in 1..Len(t) :
                        PatternAt(t, k, dayWord) /\ \A j \in 1..(k - 1) : ~PatternAt(t, j, dayWord))

\* A to24Hour for which every pm hour is an afternoon hour.
to24Hour_PmAlways(val, meridiem) ==
    LET parsed == Atoi(val) % 24
    IN  ToString(IF meridiem = "pm" THEN parsed + 12
                 ELSE IF meridiem = "am" /\ parsed = 12 THEN 0 ELSE parsed)

to24Hour(val, meridiem) ==
    LET parsed == Atoi(val) % 24
    IN  ToString(IF meridiem = "pm" /\ parsed < 12 THEN parsed + 12
                 ELSE IF meridiem = "am" /\ parsed = 12 THEN 0 ELSE parsed)

cronOf(m, weekdays) ==
    LET minute == IF m.g2 # "" THEN Atoi(m.g2) ELSE 0
    IN  ToString(minute) \o " " \o to24Hour(m.g1, m.g3) \o
        (IF weekdays THEN " * * 1-5" ELSE " * * *")

\* The every-day pattern is tried before the every-weekday pattern.
cronOfMatches(t, d, wd) ==
    IF d.ok THEN [ok |-> TRUE, cron |-> cronOf(d, FALSE)]
    ELSE IF wd.ok THEN [ok |-> TRUE, cron |-> cronOf(wd, TRUE)]
    ELSE IF \E i \in 1..Len(t) : t[i] \in {"hour", "hourly"}
         THEN [ok |-> TRUE, cron |-> "0 * * * *"]
         ELSE [ok |-> FALSE, cron |-> ""]

parseCommonCron(spec) ==
    cronOfMatches(Lowered(spec), FindSubmatch(Lowered(spec), "day"),
                  FindSubmatch(Lowered(spec), "weekday"))

IsPath(tok) == tok \in {"~/code/app", "/srv/app"}

\* repoPattern: "repo", whitespace, a path.
extractRepoPath(spec) ==
    IF \E i \in 1..Len(spec) : LowerTok(spec[i]) = "repo" /\ At(spec, i + 1) = " "
                               /\ IsPath(At(spec, i + 2))
    THEN LET i == CHOOSE k \in 1..Len(spec) :
                     /\ LowerTok(spec[k]) = "repo" /\ At(spec, k + 1) = " " /\ IsPath(At(spec, k + 2))
                     /\ \A j \in 1..(k - 1) :
                           ~(LowerTok(spec[j]) = "repo" /\ At(spec, j + 1) = " "
                             /\ IsPath(At(spec, j + 2)))
         IN  spec[i + 2]
    ELSE ""

\* strings.Split(spec, ";"): the parts of the text between the semicolons.
RECURSIVE Split(_, _)
Split(t, part) ==
    IF t = <<>> THEN <<part>>
    ELSE IF Head(t) = ";" THEN <<part>> \o Split(Tail(t), <<>>)
    ELSE Split(Tail(t), Append(part, Head(t)))

\* The parts that begin with "run ", without that prefix, trimmed.
extractSteps(spec) ==
    LET parts == Split(spec, <<>>)
        trimmed == [i \in 1..Len(parts) |-> TrimSpace(parts[i])]
        isRun(part) == Len(part) >= 2 /\ LowerTok(part[1]) = "run" /\ part[2] = " "
        runs == SelectSeq(trimmed, isRun)
    IN  [i \in 1..Len(runs) |-> TrimSpace(SubSeq(runs[i], 3, Len(runs[i])))]

\* A lowered token as its alphanumeric runs; "" marks a run of other
\* characters.
SlugRuns(tok) ==
    IF tok \in {" ", ";", ":", "\n", "\t"} THEN <<"">>
    ELSE IF tok = "~/code/app" THEN <<"", "code", "", "app">>
    ELSE IF tok = "/srv/app" THEN <<"", "srv", "", "app">>
    ELSE <<LowerTok(tok)>>

RECURSIVE AllRuns(_)
AllRuns(t) == IF t = <<>> THEN <<>> ELSE SlugRuns(Head(t)) \o AllRuns(Tail(t))

\* [^a-z0-9]+ replaced by "-" and strings.Trim(slug, "-"): the runs joined
\* by one "-" wherever other characters stood between them.
RECURSIVE JoinRuns(_, _, _)
JoinRuns(runs, acc, dash) ==
    IF runs = <<>> THEN acc
    ELSE IF Head(runs) = "" THEN JoinRuns(Tail(runs), acc, TRUE)
    ELSE IF dash /\ acc # "" THEN JoinRuns(Tail(runs), acc \o "-" \o Head(runs), FALSE)
    ELSE JoinRuns(Tail(runs), acc \o Head(runs), FALSE)

\* A slug cut at SlugMax may end in "-": it is trimmed before the cut only.
defaultNameFromSpec(spec) ==
    LET slug == JoinRuns(AllRuns(spec), "", FALSE)
    IN  IF slug = "" THEN "devagent-<unix time>"
        ELSE IF Len(slug) > SlugMax THEN SubSeq(slug, 1, SlugMax) ELSE slug

\* What callLLM can give when an API key is set: an error, the plan of the
\* integration test, or a plan with steps only.
LLMPlans == {
    [err |-> TRUE, name |-> "", repo |-> "", cron |-> "", timezone |-> "", steps |-> <<>>],
    [err |-> FALSE, name |-> "repo-summary", repo |-> "/srv/app", cron |-> "0 7 * * *",
     timezone |-> "Local", steps |-> << <<"ls">>, <<"head", " ", "README.md">> >>],
    [err |-> FALSE, name |-> "", repo |-> "", cron |-> "", timezone |-> "",
     steps |-> << <<"ls">> >>] }

NoPlan == [Name |-> "", Repo |-> "", Cron |-> "", Natural |-> <<>>, Timezone |-> "", Steps |-> <<>>]

\* The Result PlanFromSpec starts from: the options of the caller.
fromOptions(spec, o) ==
    [Name |-> o.Name, Repo |-> o.RepoHint, Cron |-> o.CronHint, Natural |-> spec,
     Timezone |-> IF o.Timezone = "" THEN "Local" ELSE o.Timezone,
     Steps |-> o.StepHints]

\* The non-empty fields of the answer of callLLM laid over the Result.
overlay(res, plan) ==
    [res EXCEPT
       !.Name = IF plan.name # "" THEN plan.name ELSE @,
       !.Repo = IF plan.repo # "" THEN plan.repo ELSE @,
       !.Cron = IF plan.cron # "" THEN plan.cron ELSE @,
       !.Steps = IF Len(plan.steps) > 0 THEN plan.steps ELSE @,
       !.Timezone = IF plan.timezone # "" THEN plan.timezone ELSE @]

\* The fields still empty taken from the text: cron, repository, steps, name.
heuristics(res, spec, parsed) ==
    [res EXCEPT !.Cron = IF @ = "" THEN parsed.cron ELSE @,
                !.Repo = IF @ = "" THEN extractRepoPath(spec) ELSE @,
                !.Steps = IF Len(@) = 0 THEN extractSteps(spec) ELSE @,
                !.Name = IF @ = "" THEN defaultNameFromSpec(spec) ELSE @]

planOf(spec, o, res, parsed, filled) ==
    IF spec = <<>> THEN [err |-> "spec is empty", res |-> NoPlan]
    ELSE IF o.APIKey # "" /\ ~o.llm.err THEN [err |-> "", res |-> overlay(res, o.llm)]
    ELSE IF res.Cron = "" /\ ~parsed.ok
         THEN [err |-> "unable to derive cron expression; provide --cron", res |-> NoPlan]
    ELSE IF Len(filled.Steps) = 0
         THEN [err |-> "no steps resolved; provide --step", res |-> NoPlan]
    ELSE [err |-> "", res |-> filled]

\* o is planner.Options with the answer callLLM would give; the result is
\* [err, res]: the error PlanFromSpec returns ("" for nil) and its Result.
PlanFromSpec(text, o) ==
    planOf(TrimSpace(text), o, fromOptions(TrimSpace(text), o),
           parseCommonCron(TrimSpace(text)),
           heuristics(fromOptions(TrimSpace(text), o), TrimSpace(text),
                      parseCommonCron(TrimSpace(text))))

(***************************************************************************)
(* The commands `new` and `run`                                            *)
(***************************************************************************)
NoPhrase == [kind |-> "none", h |-> 0, pad |-> FALSE, m |-> 0 - 1, mer |-> "", gap |-> FALSE]

\* "every <kind> at H[:MM][ ][am|pm]" as tokens; m = -1 stands for no minutes.
PhraseText(ph) ==
    IF ph.kind = "none" THEN <<>>
    ELSE <<"every", " ", ph.kind, " ", "at", " ",
           IF ph.pad THEN "0" \o ToString(ph.h) ELSE ToString(ph.h)>>
         \o (IF ph.m >= 0
             THEN <<":", IF ph.m < 10 THEN "0" \o ToString(ph.m) ELSE ToString(ph.m)>>
             ELSE <<>>)
         \o (IF ph.mer = "" THEN <<>>
             ELSE (IF ph.gap THEN <<" ">> ELSE <<>>) \o <<ph.mer>>)

Phrases ==
    {ph \in [kind : {"day", "weekday"}, h : {0, 1, 9, 11, 12, 13, 23}, pad : BOOLEAN,
             m : {0 - 1, 0, 5, 30}, mer : {"", "am", "pm", "PM"}, gap : BOOLEAN] :
        /\ ph.pad => ph.h < 10
        /\ ph.gap => ph.mer # ""}

RepoAndStep == <<"repo", " ", "~/code/app", ";", " ", "run", " ", "pytest", ";", " ">>

Prefixes == { <<>>, RepoAndStep, <<" ">>,
              <<"Summarize", " ", "this", " ", "repository">>,
              <<"Run", " ", "pytest", ";", " ", "hourly">> }

Text(a) == a.prefix \o PhraseText(a.phrase)

\* The command lines of `new`: every phrase with the repository and the step
\* in the text, and every combination of flags on a few texts.
NewArgs ==
    [prefix : {RepoAndStep}, phrase : Phrases, approve : {TRUE},
     o : [Name : {""}, Timezone : {""}, CronHint : {"", "0 0 * * *"}, RepoHint : {""},
          StepHints : {<<>>}, APIKey : {""}, llm : {x \in LLMPlans : x.err}]]
    \cup
    [prefix : Prefixes,
     phrase : {NoPhrase, [kind |-> "weekday", h |-> 9, pad |-> FALSE, m |-> 0 - 1,
                          mer |-> "am", gap |-> FALSE]},
     approve : BOOLEAN,
     o : {x \in [Name : {"", "nightly"}, Timezone : {""}, CronHint : {"", "0 0 * * *"},
                 RepoHint : {"", "/srv/app"}, StepHints : {<<>>, << <<"pytest">> >>},
                 APIKey : {"", "test-key"}, llm : LLMPlans] :
             x.APIKey = "" => x.llm.err}]

NoWorkflow == [name |-> "", repo |-> "", natural |-> <<>>, cron |-> "", timezone |-> "",
               steps |-> <<>>]

YamlPath == "<cwd>/.devagent.yml"

\* dsl.Load of the file: what it returns for no file, and its three checks.
dslLoad(file) ==
    IF file = <<>> THEN [err |-> "read", wf |-> NoWorkflow]
    ELSE IF file.name = "" THEN [err |-> "workflow name is required", wf |-> NoWorkflow]
    ELSE IF file.repo = "" THEN [err |-> "workflow repo is required", wf |-> NoWorkflow]
    ELSE IF file.cron = "" THEN [err |-> "workflow schedule cron is required", wf |-> NoWorkflow]
    ELSE [err |-> "", wf |-> file]

Exited(code) == [cli EXCEPT !.pc = "newDone", !.exit = code]

\* The workflow doNew builds from the plan.
workflowOf(res) ==
    [name |-> IF res.Name = "" THEN "devagent-job" ELSE res.Name, repo |-> res.Repo,
     natural |-> res.Natural, cron |-> res.Cron, timezone |-> res.Timezone,
     steps |-> res.Steps]

\* Where doNew stands after the plan, the check of the steps and the approval.
afterPlan(c, r) ==
    IF r.err # "" THEN [c EXCEPT !.pc = "newDone", !.exit = 1]
    ELSE IF Len(r.res.Steps) = 0
         THEN [c EXCEPT !.pc = "newDone", !.exit = 1, !.planned = TRUE, !.plan = r.res]
    ELSE IF ~c.args.approve
         THEN [c EXCEPT !.pc = "newDone", !.exit = 0, !.planned = TRUE, !.plan = r.res,
                        !.wf = workflowOf(r.res)]
         ELSE [c EXCEPT !.pc = "save", !.planned = TRUE, !.plan = r.res,
                        !.wf = workflowOf(r.res)]

\* doNew up to the approval: the plan, the default name, the check of the
\* steps, the workflow and its rendering.
NewPlan ==
    /\ cli.pc = "new"
    /\ cli' = afterPlan(cli, PlanFromSpec(Text(cli.args), cli.args.o))
    /\ UNCHANGED <<yml, schedVars, runVars, redVars, passVars, clock, envVars, dirVars>>

\* os.Getwd and dsl.Save.
NewSave(io) ==
    /\ cli.pc = "save"
    /\ io \in {"ok", "cwd", "write"}
    /\ IF io = "ok"
       THEN /\ yml' = cli.wf
            /\ cli' = [cli EXCEPT !.pc = "register"]
       ELSE /\ cli' = Exited(1)
            /\ UNCHANGED yml
    /\ UNCHANGED <<schedVars, runVars, redVars, passVars, clock, envVars, dirVars>>

\* store.Open, store.NewJob and UpsertJob.
NewRegister(io) ==
    /\ cli.pc = "register"
    /\ io \in {"ok", "open", "upsert"}
    /\ IF io = "ok"
       THEN /\ db' = upsert(db, cli.wf.name, cli.wf.cron, cli.wf.timezone, YamlPath)
            /\ cli' = Exited(0)
       ELSE /\ cli' = Exited(1)
            /\ UNCHANGED db
    /\ UNCHANGED <<yml, jobs, entries, nextID, daemon, procs, locks, stable,
                   runVars, redVars, passVars, clock, envVars, dirVars>>

\* doRun in the same directory, up to the call of runner.Run.
RunCommand ==
    /\ cli.pc = "newDone"
    /\ LET l == dslLoad(yml)
       IN  cli' = IF l.err # "" THEN [cli EXCEPT !.pc = "runDone", !.runExit = 1]
                  ELSE [cli EXCEPT !.pc = "runDone", !.ran = l.wf, !.loaded = TRUE]
    /\ UNCHANGED <<yml, schedVars, runVars, redVars, passVars, clock, envVars, dirVars>>

(***************************************************************************)
(* Specifications of the daemon                                            *)
(***************************************************************************)
RunOff ==
    /\ opts = [workflow |-> NilWorkflow, stdout |-> FALSE]
    /\ run = [pc |-> "off", i |-> 0, summary |-> NoSummary, ret |-> "none", err |-> "none"]
    /\ fs = NoFiles
    /\ tty = <<>>
    /\ invoked = <<>>

RedactOff ==
    /\ rw = [phase |-> "off", in |-> <<>>, pos |-> 0, buf |-> <<>>]
    /\ sink = <<>>

ClockOff == clock = [host |-> "UTC", now |-> 0, fired |-> <<>>]

EnvOff ==
    /\ environ = <<>>
    /\ stepEnv = [started |-> FALSE, env |-> <<>>]

DirOff ==
    /\ disk = <<>>
    /\ dirRuns = <<>>

CmdOff ==
    /\ cli = [pc |-> "off"]
    /\ yml = <<>>

SchedOff ==
    /\ db = <<>>
    /\ jobs = <<>>
    /\ entries = <<>>
    /\ nextID = 0
    /\ daemon = "new"
    /\ procs = [p \in Procs |-> Idle]
    /\ locks = [f \in LockFiles |-> 0]
    /\ stable = 0
    /\ reloadErr = "none"
    /\ readded = NoReadd

\* The state after construction: an empty store and scheduler.New.
Init ==
    /\ db = <<>>
    /\ jobs = <<>>
    /\ entries = <<>>
    /\ nextID = 0
    /\ daemon = "new"
    /\ procs = [p \in Procs |-> Idle]
    /\ locks = [f \in LockFiles |-> 0]
    /\ stable = 0
    /\ reloadErr = "none"
    /\ readded = NoReadd
    /\ RunOff
    /\ RedactOff
    /\ ClockOff
    /\ CmdOff
    /\ EnvOff
    /\ DirOff

Next ==
    \/ \E n \in Names, c \in CronSpecs :
          UpsertJob(n, c, "America/New_York", "/w1/.devagent.yml")
    \/ \E n \in Names : RemoveJob(n)
    \/ \E ok \in BOOLEAN : DaemonStart(ok)
    \/ \E ok \in BOOLEAN : Tick(ok)
    \/ Cancel

Spec == Init /\ [][Next]_vars

\* The same loop with every column of a job edited, on the last two names.
EditNames == {NameOrder[2], NameOrder[3]}

NextEdit ==
    \/ \E n \in EditNames, j \in JobSpecs : UpsertJob(n, j.cron, j.timezone, j.yamlPath)
    \/ \E n \in EditNames : RemoveJob(n)
    \/ \E ok \in BOOLEAN : DaemonStart(ok)
    \/ \E ok \in BOOLEAN : Tick(ok)
    \/ Cancel

SpecEdit == Init /\ [][NextEdit]_vars

\* A store that holds, when the daemon starts, a job whose cron spec the
\* parser rejects and, after it in the listing, a job whose spec it accepts;
\* the specs are edited under the running daemon, no job is removed.
FixNames == {NameOrder[1], NameOrder[3]}

InitFix ==
    /\ db = upsert(upsert(<<>>, NameOrder[1], "every day", "America/New_York", "/w1/.devagent.yml"),
                   NameOrder[3], "0 9 * * 1-5", "utc", "/w2/.devagent.yml")
    /\ jobs = <<>>
    /\ entries = <<>>
    /\ nextID = 0
    /\ daemon = "new"
    /\ procs = [p \in Procs |-> Idle]
    /\ locks = [f \in LockFiles |-> 0]
    /\ stable = 0
    /\ reloadErr = "none"
    /\ readded = NoReadd
    /\ RunOff
    /\ RedactOff
    /\ ClockOff
    /\ CmdOff
    /\ EnvOff
    /\ DirOff

NextFix ==
    \/ \E n \in FixNames, j \in JobSpecs : UpsertJob(n, j.cron, j.timezone, j.yamlPath)
    \/ \E ok \in BOOLEAN : DaemonStart(ok)
    \/ \E ok \in BOOLEAN : Tick(ok)
    \/ Cancel

SpecFix == InitFix /\ [][NextFix]_vars

\* One job in the store, any timezone name, any zone of the host; the daemon
\* starts, registers it and the week goes by.
InitClock ==
    /\ \E c \in {x \in CronSpecs : ParseOK(x)}, z \in TimezoneNames :
          db = upsert(<<>>, NameOrder[3], c, z, "/w1/.devagent.yml")
    /\ jobs = <<>>
    /\ entries = <<>>
    /\ nextID = 0
    /\ daemon = "new"
    /\ procs = [p \in Procs |-> Idle]
    /\ locks = [f \in LockFiles |-> 0]
    /\ stable = 0
    /\ reloadErr = "none"
    /\ readded = NoReadd
    /\ clock \in [host : HostZones, now : {0}, fired : {<<>>}]
    /\ RunOff
    /\ RedactOff
    /\ CmdOff
    /\ EnvOff
    /\ DirOff

NextClock ==
    \/ \E ok \in BOOLEAN : DaemonStart(ok)
    \/ Advance
    \/ \E e \in DOMAIN entries : Dispatch(e)

SpecClock == InitClock /\ [][NextClock]_vars

\* `devagent new` is started in a directory without a workflow file.
InitNew ==
    /\ cli \in [pc : {"new"}, args : NewArgs, planned : {FALSE}, plan : {NoPlan},
                wf : {NoWorkflow}, exit : {0 - 1}, ran : {NoWorkflow}, loaded : {FALSE},
                runExit : {0 - 1}]
    /\ yml = <<>>
    /\ SchedOff
    /\ RunOff
    /\ RedactOff
    /\ ClockOff
    /\ EnvOff
    /\ DirOff

NextNew ==
    \/ NewPlan
    \/ \E io \in {"ok", "cwd", "write"} : NewSave(io)
    \/ \E io \in {"ok", "open", "upsert"} : NewRegister(io)
    \/ RunCommand

SpecNew == InitNew /\ [][NextNew]_vars

\* A running daemon whose first reload has registered one job per name.
ExecDb ==
    [n \in Names |-> [cron |-> "0 9 * * 1-5", timezone |-> "America/New_York",
                      yamlPath |-> "/w1/.devagent.yml", lastStatus |-> "none",
                      lastRun |-> "none"]]

ExecReg == reload(Listing(ExecDb), [jobs |-> <<>>, entries |-> <<>>, nextID |-> 0])

InitExec ==
    /\ db = ExecDb
    /\ jobs = ExecReg.jobs
    /\ entries = ExecReg.entries
    /\ nextID = ExecReg.nextID
    /\ daemon = "running"
    /\ procs = [p \in Procs |-> Idle]
    /\ locks = [f \in LockFiles |-> 0]
    /\ stable = 1
    /\ reloadErr = "nil"
    /\ readded = NoReadd
    /\ RunOff
    /\ RedactOff
    /\ ClockOff
    /\ CmdOff
    /\ EnvOff
    /\ DirOff

NextExec ==
    \/ \E p \in Procs, e \in DOMAIN entries : Fire(p, e)
    \/ \E p \in Procs, oserr \in BOOLEAN : Acquire(p, oserr)
    \/ \E p \in Procs : Return(p)
    \/ \E p \in Procs : ManualStart(p, NameOrder[3])
    \/ \E p \in Procs, ok \in BOOLEAN : Load(p, ok)
    \/ \E p \in Procs, res \in {"success", "failed", "error"} : RunWorkflow(p, res)
    \/ \E p \in Procs : Persist(p)
    \/ \E p \in Procs : Release(p)
    \/ Cancel
    \/ Exit

SpecExec == InitExec /\ [][NextExec]_vars

(***************************************************************************)
(* Specification of one run of the step runner                             *)
(***************************************************************************)
InitRun ==
    /\ opts \in {[workflow |-> NilWorkflow, stdout |-> FALSE]} \cup
                [workflow : [nil : {FALSE}, repoOK : BOOLEAN, steps : Workflows(MaxSteps),
                             outputs : OutputChoices],
                 stdout : BOOLEAN]
    /\ run = [pc |-> "start", i |-> 0, summary |-> NoSummary, ret |-> "none", err |-> "none"]
    /\ fs = NoFiles
    /\ tty = <<>>
    /\ invoked = <<>>
    /\ SchedOff
    /\ RedactOff
    /\ ClockOff
    /\ CmdOff
    /\ EnvOff
    /\ DirOff

NextRun ==
    \/ \E io \in {"ok", "mkdir", "create"} : RunBegin(io)
    \/ \E flushOK \in BOOLEAN : RunStep(flushOK)
    \/ \E writeOK \in BOOLEAN, failing \in SUBSET RepoFiles : RunFinish(writeOK, failing)

SpecRun == InitRun /\ [][NextRun]_vars

\* The same invocation on a host whose wall clock moves during the run.
NextStamp ==
    \/ \E io \in {"ok", "mkdir", "create"} : RunBegin(io)
    \/ \E flushOK \in BOOLEAN : RunStep(flushOK)
    \/ \E writeOK \in BOOLEAN, failing \in SUBSET RepoFiles : RunFinish(writeOK, failing)
    \/ \E t \in WallInstants : WallStep(t)

SpecStamp == InitRun /\ [][NextStamp]_vars

(***************************************************************************)
(* Reconciliation under executions in flight                               *)
(***************************************************************************)
\* The steps of the callback in slot p; the runs of this specification end
\* with a failed step.
ExecStep(p) ==
    \/ \E oserr \in BOOLEAN : Acquire(p, oserr)
    \/ Return(p)
    \/ \E ok \in BOOLEAN : Load(p, ok)
    \/ RunWorkflow(p, "failed")
    \/ Persist(p)
    \/ Release(p)

LiveSlots == {1, 2}

NextLive ==
    \/ \E n \in EditNames : RemoveJob(n)
    \/ \E ok \in BOOLEAN : Tick(ok)
    \/ \E p \in LiveSlots, e \in DOMAIN entries : Fire(p, e)
    \/ \E p \in LiveSlots : ExecStep(p)
    \/ Cancel
    \/ Exit

\* A callback that has started goes on while the process lives, and the
\* steps of the workflow end.
SpecLive == InitExec /\ [][NextLive]_vars /\ \A p \in LiveSlots : WF_vars(ExecStep(p))

(***************************************************************************)
(* Specification of the daemon's writes to the store                       *)
(***************************************************************************)
\* Triggers of the registered jobs run to their end, with every outcome of
\* the lock, of the load and of the runner, while the loop reconciles.
NextPersist ==
    \/ \E ok \in BOOLEAN : Tick(ok)
    \/ \E p \in LiveSlots, e \in DOMAIN entries : Fire(p, e)
    \/ \E p \in LiveSlots, oserr \in BOOLEAN : Acquire(p, oserr)
    \/ \E p \in LiveSlots : Return(p)
    \/ \E p \in LiveSlots, ok \in BOOLEAN : Load(p, ok)
    \/ \E p \in LiveSlots, res \in {"success", "failed", "error"} : RunWorkflow(p, res)
    \/ \E p \in LiveSlots : Persist(p)
    \/ \E p \in LiveSlots : Release(p)

SpecPersist == InitExec /\ [][NextPersist]_vars

(***************************************************************************)
(* Specification of the environment a step is started with                 *)
(***************************************************************************)
InitEnv ==
    /\ environ \in UNION {[1..k -> EnvPool] : k \in 0..MaxEnv}
    /\ stepEnv = [started |-> FALSE, env |-> <<>>]
    /\ SchedOff
    /\ RunOff
    /\ RedactOff
    /\ ClockOff
    /\ CmdOff
    /\ DirOff

NextEnv ==
    \/ StartStep

SpecEnv == InitEnv /\ [][NextEnv]_vars

(***************************************************************************)
(* One daemon-triggered execution with the step runner inside it           *)
(***************************************************************************)
\* A status that ignores the error of runner.Run.
outcomeOf_IgnoreError(r) == r.summary.status

\* The status execute hands to UpdateRunResult for what runner.Run returned.
outcomeOf(r) == IF r.ret = "error" THEN "failed" ELSE r.summary.status

\* execute calls runner.Run with the workflow it loaded.
CallRun(p) ==
    /\ procs[p].pc = "run"
    /\ procs[p].kind = "daemon"
    /\ run.pc = "off"
    /\ run' = [run EXCEPT !.pc = "start"]
    /\ UNCHANGED <<opts, fs, tty, invoked, schedVars, redVars, passVars, clock, cmdVars, envVars, dirVars>>

\* runner.Run has returned to execute.
RunReturned(p) ==
    /\ procs[p].pc = "run"
    /\ procs[p].kind = "daemon"
    /\ run.pc = "returned"
    /\ procs' = [procs EXCEPT ![p] = [@ EXCEPT !.pc = "persist", !.result = outcomeOf(run)]]
    /\ UNCHANGED <<db, jobs, entries, nextID, daemon, locks, stable, runVars, redVars,
                   passVars, clock, cmdVars, envVars, dirVars>>

\* A running daemon with its jobs registered; the workflow file of the jobs
\* is any workflow dsl.Load accepts.
InitJob ==
    /\ db = ExecDb
    /\ jobs = ExecReg.jobs
    /\ entries = ExecReg.entries
    /\ nextID = ExecReg.nextID
    /\ daemon = "running"
    /\ procs = [p \in Procs |-> Idle]
    /\ locks = [f \in LockFiles |-> 0]
    /\ stable = 1
    /\ reloadErr = "nil"
    /\ readded = NoReadd
    /\ opts \in [workflow : [nil : {FALSE}, repoOK : BOOLEAN, steps : Workflows(MaxSteps),
                              outputs : OutputChoices],
                  stdout : {FALSE}]
    /\ run = [pc |-> "off", i |-> 0, summary |-> NoSummary, ret |-> "none", err |-> "none"]
    /\ fs = NoFiles
    /\ tty = <<>>
    /\ invoked = <<>>
    /\ RedactOff
    /\ ClockOff
    /\ CmdOff
    /\ EnvOff
    /\ DirOff

NextJob ==
    \/ \E e \in DOMAIN entries : Fire(1, e)
    \/ \E oserr \in BOOLEAN : Acquire(1, oserr)
    \/ Return(1)
    \/ \E ok \in BOOLEAN : Load(1, ok)
    \/ CallRun(1)
    \/ \E io \in {"ok", "mkdir", "create"} : RunBegin(io)
    \/ \E flushOK \in BOOLEAN : RunStep(flushOK)
    \/ \E writeOK \in BOOLEAN, failing \in SUBSET RepoFiles : RunFinish(writeOK, failing)
    \/ RunReturned(1)
    \/ Persist(1)
    \/ Release(1)

SpecJob == InitJob /\ [][NextJob]_vars

(***************************************************************************)
(* Specification of runs sharing the run directories of two repositories   *)
(***************************************************************************)
InitDirs ==
    /\ disk = <<>>
    /\ dirRuns = <<>>
    /\ SchedOff
    /\ RunOff
    /\ RedactOff
    /\ ClockOff
    /\ CmdOff
    /\ EnvOff

NextDirs ==
    \/ \E repo \in Repos, t \in Instants : StartRun(repo, t)
    \/ \E i \in 1..MaxRuns : WriteLog(i)
    \/ \E i \in 1..MaxRuns : FinishRun(i)

SpecDirs == InitDirs /\ [][NextDirs]_vars

(***************************************************************************)
(* Specification of the redaction of one stream                            *)
(***************************************************************************)
InitRedact ==
    /\ rw \in [phase : {"write", "echo"}, in : Streams(MaxStream), pos : {0}, buf : {<<>>}]
    /\ sink = <<>>
    /\ SchedOff
    /\ RunOff
    /\ ClockOff
    /\ CmdOff
    /\ EnvOff
    /\ DirOff

NextRedact ==
    \/ \E k \in 1..MaxStream : Write(k)
    \/ Flush
    \/ Echo

SpecRedact == InitRedact /\ [][NextRedact]_vars

(***************************************************************************)
(* Claims about the execution lock                                         *)
(***************************************************************************)
Daemons(p, q) ==
    /\ p # q
    /\ procs[p].kind = "daemon"
    /\ procs[q].kind = "daemon"
    /\ procs[p].name = procs[q].name

\* C1: at most one daemon-triggered execution of a job name is between lock
\* acquisition and release; each such execution is the holder of the job's
\* lock file; a trigger that finds the lock held leaves the lock table alone
\* and never goes on to load or run the workflow, it ends as a skip.
C1_OneExecutionPerJob ==
    /\ [](\A p, q \in Procs : Daemons(p, q) => ~(InCS(p) /\ InCS(q)))
    /\ [](\A p \in Procs :
            /\ (procs[p].kind = "daemon" /\ InCS(p)) => locks[LockFile(procs[p].name)] = p
            /\ procs[p].pc \in {"skipped", "lockerr"} =>
                  (locks[LockFile(procs[p].name)] # p /\ procs[p].result = "none"))
    /\ [][\A p \in Procs :
            (/\ procs[p].pc = "acquire"
             /\ locks[LockFile(procs[p].name)] # 0
             /\ procs'[p] # procs[p])
            => (Exit \/ (procs'[p].pc \in {"skipped", "lockerr"} /\ locks' = locks /\ db' = db))]_vars

\* A second trigger of a job was skipped while the first one runs the workflow.
C1_Witness ==
    \E p, q \in Procs :
        /\ Daemons(p, q)
        /\ procs[p].pc = "run"
        /\ procs[q].pc = "skipped"

\* C2: a daemon-triggered execution and a manual run of the same name are
\* never both running the workflow's steps.
C2_ManualDaemonExclusion ==
    \A p, q \in Procs :
        (/\ procs[p].kind = "daemon"
         /\ procs[q].kind = "manual"
         /\ procs[p].name = procs[q].name)
        => ~(procs[p].pc = "run" /\ procs[q].pc = "run")

\* C3: a trigger is skipped as already running only when the holder of the
\* lock is an execution of the same job name.
C3_DistinctNamesNeverBlock ==
    [][\A p \in Procs :
          (procs[p].pc = "acquire" /\ procs'[p].pc = "skipped")
          => Holder(procs[p].name) = procs[p].name]_vars

\* C12: whenever no daemon-triggered execution of a job name is between
\* lock acquisition and release, the lock file of that name is free.
C12_LockFreeWhenIdle ==
    \A n \in Names :
        (~\E p \in Procs : procs[p].kind = "daemon" /\ procs[p].name = n /\ InCS(p))
        => locks[LockFile(n)] = 0

\* C16: once the daemon's context is cancelled, an execution that holds the
\* lock still goes through its remaining stages: it leaves the guarded
\* section only from its release, after the outcome was persisted.
C16_ShutdownLetsExecutionFinish ==
    [][\A p \in Procs :
          (/\ daemon # "running"
           /\ procs[p].kind = "daemon"
           /\ InCS(p)
           /\ procs'[p] = Idle)
          => procs[p].pc = "release"]_vars

\* C21: a daemon-triggered execution goes through its stages in one order:
\* it loads only once it holds the lock, runs only after the load, persists
\* only after the run, releases only after persisting (or after a failed
\* load), and its lock file leaves its hands only at the release; so the
\* lock is held whenever the outcome of the run is still to be persisted.
C21_ExecutionOrder ==
    /\ [](\A p \in Procs :
            (procs[p].kind = "daemon" /\ procs[p].pc \in {"load", "run", "persist"})
            => locks[LockFile(procs[p].name)] = p)
    /\ [][\A p \in Procs :
            (procs[p].kind = "daemon" /\ procs'[p] # procs[p] /\ ~Exit)
            => /\ procs'[p].pc = "load" => (procs[p].pc = "acquire" /\ locks[LockFile(procs[p].name)] = 0)
               /\ procs'[p].pc = "run" => procs[p].pc = "load"
               /\ procs'[p].pc = "persist" => procs[p].pc = "run"
               /\ procs'[p].pc = "release" => procs[p].pc \in {"load", "persist"}
               /\ (procs[p].pc = "persist") =>
                     /\ procs'[p].pc = "release"
                     /\ db'[procs[p].name].lastStatus =
                           (IF procs[p].result = "error" THEN "failed" ELSE procs[p].result)
               /\ locks'[LockFile(procs[p].name)] # locks[LockFile(procs[p].name)]
                     => procs[p].pc \in {"acquire", "release"}
               /\ (procs[p].pc = "release") =>
                     (procs'[p] = Idle /\ locks'[LockFile(procs[p].name)] = 0)]_vars

\* An execution has persisted the outcome of its run and still holds the
\* lock it is about to release.
C21_Witness ==
    \E p \in Procs :
        /\ procs[p].kind = "daemon"
        /\ procs[p].pc = "release"
        /\ locks[LockFile(procs[p].name)] = p
        /\ db[procs[p].name].lastStatus = "failed"

OthersUntouched(p) ==
    /\ db' = db
    /\ jobs' = jobs
    /\ entries' = entries
    /\ locks' = locks
    /\ \A q \in Procs \ {p} : procs'[q] = procs[q]

\* C20: the step that skips a trigger, and the return that follows, change
\* nothing but the trigger's own position: the store, the registration
\* table, the lock files and every other execution stay as they are; the
\* skipped trigger never loads or runs the workflow and is not tried again.
C20_SkipHasNoSideEffects ==
    [][\A p \in Procs :
          /\ (procs[p].pc = "acquire" /\ procs'[p].pc = "skipped")
                => (OthersUntouched(p) /\ procs'[p].result = "none")
          /\ (procs[p].pc = "skipped" /\ procs'[p] # procs[p])
                => (Exit \/ (procs'[p] = Idle /\ OthersUntouched(p)))]_vars

\* A trigger was skipped while the holder of the lock is about to persist a
\* successful run.
C20_Witness ==
    \E p, q \in Procs :
        /\ p # q
        /\ procs[p].pc = "skipped"
        /\ procs[q].pc = "persist"
        /\ procs[q].result = "success"
        /\ locks[LockFile(procs[p].name)] = q

(***************************************************************************)
(* Claims about the time of a trigger                                      *)
(***************************************************************************)
\* C11: a trigger of a job with cron "0 9 * * 1-5" and timezone
\* "America/New_York" is dispatched only at an instant that is 09:00 of a
\* Monday to Friday on the New York wall clock, whatever the host's zone.
C11_FiresInJobTimezone ==
    (/\ clock.fired # <<>>
     /\ clock.fired.cron = "0 9 * * 1-5"
     /\ clock.fired.timezone = "America/New_York")
    => LET wall == WallClock("America/New_York", clock.host, clock.fired.at)
       IN  wall.hour = 9 /\ wall.day \in 0..4

(***************************************************************************)
(* Claims about reconciliation                                             *)
(***************************************************************************)
CompletedPass == Tick(TRUE) \/ DaemonStart(TRUE)

\* C4: when a reconciliation pass completes, every registered job name is a
\* name of the listing the pass read.
C4_RegisteredSubsetOfListing ==
    [][CompletedPass => DOMAIN jobs' \subseteq ListingNames(Listing(db))]_vars

\* A completed pass has unregistered a job that left the store, others stay.
C4_Witness ==
    /\ stable >= 1
    /\ DOMAIN jobs # {}
    /\ Cardinality(DOMAIN entries) < nextID
    /\ DOMAIN jobs = {n \in DOMAIN db : ParseOK(db[n].cron)}

\* C5: a pass that follows a completed pass with the job set unchanged
\* registers nothing, removes nothing and keeps every handle.
C5_ReloadIdempotent ==
    [][(CompletedPass /\ stable >= 1)
       => (jobs' = jobs /\ entries' = entries /\ nextID' = nextID)]_vars

\* Two passes in succession over an unchanged store with registered jobs.
C5_Witness ==
    /\ stable = 2
    /\ Cardinality(DOMAIN jobs) >= 2
    /\ DOMAIN jobs # DOMAIN db

Registered(n) == n \in DOMAIN jobs /\ n \in DOMAIN db

\* C13: a pass never touches the registration of a job whose name is still
\* in the store: its handle stays, and so does the entry the callback
\* captured (cron spec, timezone, location, workflow path), whatever the
\* store now holds for that name.
C13_RegisteredNeverReparsed ==
    [][\A n \in Names :
          Registered(n) =>
              /\ n \in DOMAIN jobs'
              /\ jobs'[n] = jobs[n]
              /\ jobs[n] \in DOMAIN entries'
              /\ entries'[jobs[n]] = entries[jobs[n]]]_vars

\* A pass has completed over a store in which one registered job has another
\* cron spec and another registered job another timezone than captured.
C13_Witness ==
    /\ stable >= 1
    /\ \E n, m \in Names :
          /\ Registered(n) /\ Registered(m)
          /\ entries[jobs[n]].cron # db[n].cron
          /\ entries[jobs[m]].timezone # db[m].timezone

\* C14: a completed pass returns no error, leaves out every unregistered job
\* whose cron spec does not parse and registers every unregistered job whose
\* cron spec parses, wherever the two stand in the listing.
C14_BadCronIsolated ==
    [][CompletedPass =>
          /\ reloadErr' = "nil"
          /\ \A n \in DOMAIN db \ DOMAIN jobs : ParseOK(db[n].cron) <=> n \in DOMAIN jobs']_vars

\* The first job of the listing has a bad cron spec; the pass registered the
\* two after it.
C14_Witness ==
    /\ stable >= 1
    /\ reloadErr = "nil"
    /\ DOMAIN db = Names
    /\ ~ParseOK(db[NameOrder[1]].cron)
    /\ DOMAIN jobs = {NameOrder[2], NameOrder[3]}

\* C15: a reload that fails on the listing leaves the table and the entries
\* as they were; the loop leaves "running" by cancellation only; the pass that
\* succeeds after a failure registers what the store then holds.
C15_ListingFailureRetried ==
    /\ [][reloadErr' = "error" =>
             (jobs' = jobs /\ entries' = entries /\ nextID' = nextID)]_vars
    /\ [][(daemon = "running" /\ daemon' # "running") => Cancel]_vars
    /\ [](reloadErr = "error" => daemon # "new")
    /\ [][(reloadErr = "error" /\ reloadErr' = "nil") =>
             /\ daemon' = "running"
             /\ DOMAIN jobs' \subseteq DOMAIN db
             /\ \A n \in DOMAIN db : ParseOK(db[n].cron) => n \in DOMAIN jobs']_vars

\* The listing failed on a tick after the store had changed under a daemon
\* with registered jobs; the daemon is still running.
C15_Witness ==
    /\ reloadErr = "error"
    /\ daemon = "running"
    /\ stable = 0
    /\ DOMAIN jobs # {}
    /\ DOMAIN jobs # DOMAIN db

\* C27: a completed pass drops from the table and from the cron engine every
\* registered job the store no longer lists; a trigger starts only for a job
\* that has an entry; no pass changes an execution in flight or a lock; and
\* an execution in flight of a job that is no longer registered goes on to
\* its end, where it frees its lock, as long as the daemon process lives.
C27_UnregisterKeepsExecution ==
    /\ [][CompletedPass =>
            \A n \in DOMAIN jobs \ DOMAIN db :
                n \notin DOMAIN jobs' /\ jobs[n] \notin DOMAIN entries']_vars
    /\ [][\A p \in Procs :
            (procs[p].pc = "idle" /\ procs'[p].pc = "acquire")
            => \E e \in DOMAIN entries : entries[e].name = procs'[p].name]_vars
    /\ [][(jobs' # jobs \/ entries' # entries) => (procs' = procs /\ locks' = locks)]_vars
    /\ [][\A p \in Procs :
            (procs[p].pc = "release" /\ procs'[p] # procs[p])
            => locks'[LockFile(procs[p].name)] = 0]_vars
    /\ \A p \in LiveSlots :
          (InCS(p) /\ procs[p].name \notin DOMAIN jobs)
          ~> (procs[p].pc = "idle" \/ daemon = "exited")

\* A job left the store and a completed pass unregistered it while its
\* execution was running; the execution is about to persist its outcome.
C27_Witness ==
    \E p \in Procs :
        /\ procs[p].kind = "daemon"
        /\ procs[p].pc = "persist"
        /\ locks[LockFile(procs[p].name)] = p
        /\ procs[p].name \notin DOMAIN db
        /\ procs[p].name \notin DOMAIN jobs
        /\ reloadErr = "nil"
        /\ daemon = "running"

\* C17: when a registered job was removed from the store and added again
\* with another cron spec, the next completed pass leaves it registered with
\* the cron spec the store holds.
C17_ReaddTakesEffect ==
    [][(/\ CompletedPass
        /\ readded.st = "readded"
        /\ readded.name \in DOMAIN db
        /\ ParseOK(db[readded.name].cron))
       => (/\ readded.name \in DOMAIN jobs'
           /\ entries'[jobs'[readded.name]].cron = db[readded.name].cron)]_vars

(***************************************************************************)
(* Claims about the commands and the planner                               *)
(***************************************************************************)
\* C18: when `new` has exited with status 0, <cwd>/.devagent.yml exists,
\* loads without a validation error and has the name the planner returned,
\* the store holds a job of that name for that file, and a `run` that
\* follows hands that workflow to the runner.
C18_NewLeavesRunnableWorkflow ==
    (cli.pc \in {"newDone", "runDone"} /\ cli.exit = 0) =>
        /\ yml # <<>>
        /\ dslLoad(yml).err = ""
        /\ yml.name = cli.plan.Name
        /\ yml.name \in DOMAIN db
        /\ db[yml.name].yamlPath = YamlPath
        /\ cli.pc = "runDone" => (cli.loaded /\ cli.ran = cli.wf)

\* The cron spec the phrase stands for: minutes (0 when absent), the hour on
\* the 24-hour clock, every day or Monday to Friday.
Hour24(ph) ==
    IF ph.mer \in {"pm", "PM"} /\ ph.h < 12 THEN ph.h + 12
    ELSE IF ph.mer \in {"am", "AM"} /\ ph.h = 12 THEN 0
    ELSE ph.h

PhraseCron(ph) ==
    ToString(IF ph.m >= 0 THEN ph.m ELSE 0) \o " " \o ToString(Hour24(ph)) \o
    (IF ph.kind = "weekday" THEN " * * 1-5" ELSE " * * *")

WfSteps == opts.workflow.steps

NonEmptyStep(i) == \E k \in 1..Len(WfSteps[i].run) : ~WS(WfSteps[i].run[k])

ExitedNonZero(i) == ~WfSteps[i].launch /\ WfSteps[i].code # 0

\* The non-empty steps among the first n, in workflow order.
NonEmptyUpTo(n) == SelectSeq([i \in 1..n |-> i], NonEmptyStep)

Recorded(i) == [cmd |-> TrimSpace(WfSteps[i].run), exitCode |-> WfSteps[i].code]

\* C6: no step is invoked after a step that exited non-zero; once such a
\* step has run, the summary the runner wrote holds exactly the non-empty steps up to
\* and including it, in workflow order, and its status is "failed".
C6_FailFast ==
    /\ \A a, b \in 1..Len(invoked) : a < b => ~ExitedNonZero(invoked[a])
    /\ \A a \in 1..Len(invoked) :
          (ExitedNonZero(invoked[a]) /\ run.ret = "summary") =>
              /\ invoked = NonEmptyUpTo(invoked[a])
              /\ Len(fs.summaries) >= 1
              /\ fs.summaries[1].status = "failed"
              /\ fs.summaries[1].steps = [k \in 1..Len(invoked) |-> Recorded(invoked[k])]

\* A run returned its summary after a step failed with steps still to come.
C6_Witness ==
    /\ run.ret = "summary"
    /\ Len(invoked) >= 2
    /\ ExitedNonZero(invoked[Len(invoked)])
    /\ \E i \in 1..Len(WfSteps) : i > invoked[Len(invoked)] /\ NonEmptyStep(i)

\* C7: summary.json is never written twice; a run that ends without an
\* infrastructure error has written it once, in its run directory, with
\* status "success" exactly when every attempted step exited 0.
C7_SummaryOnce ==
    /\ Len(fs.summaries) <= 1
    /\ (run.pc = "returned" /\ run.err = "none") =>
          /\ fs.runDir
          /\ Len(fs.summaries) = 1
          /\ fs.summaries[1].status \in {"success", "failed"}
          /\ (fs.summaries[1].status = "success"
                <=> \A a \in 1..Len(invoked) : WfSteps[invoked[a]].code = 0)
          /\ Len(fs.summaries[1].steps) = Len(invoked)

\* C8: when the repository path does not resolve to an existing path, no
\* run directory, run.log or summary.json exists, no step is executed, and
\* the run returns an error.
C8_NoArtifactsWithoutRepo ==
    (~opts.workflow.nil /\ ~opts.workflow.repoOK) =>
        /\ ~fs.runDir
        /\ ~fs.logCreated
        /\ fs.log = <<>>
        /\ fs.summaries = <<>>
        /\ fs.copied = {}
        /\ invoked = <<>>
        /\ tty = <<>>
        /\ run.pc = "returned" => run.ret = "error"

\* A workflow with steps and outputs was refused for its repository path.
C8_Witness ==
    /\ ~opts.workflow.nil
    /\ ~opts.workflow.repoOK
    /\ run.pc = "returned"
    /\ Len(WfSteps) >= 2
    /\ opts.workflow.outputs # <<>>

\* C24: a step whose text is empty after trimming is never invoked; the
\* iteration over it changes neither the log, nor the caller's output, nor
\* the summary being built, nor the status, and moves on to the next step;
\* a run that ends with status "success" has invoked and recorded every
\* non-empty step of the workflow, in order.
C24_EmptyStepSkipped ==
    /\ [](\A a \in 1..Len(invoked) : NonEmptyStep(invoked[a]))
    /\ [][(run.pc = "steps" /\ ~NonEmptyStep(run.i) /\ run' # run)
          => /\ fs' = fs
             /\ tty' = tty
             /\ invoked' = invoked
             /\ run' = [run EXCEPT !.i = run.i + 1,
                                   !.pc = IF run.i = Len(WfSteps) THEN "finish" ELSE "steps"]]_vars
    /\ []((run.ret = "summary" /\ run.summary.status = "success") =>
            /\ invoked = NonEmptyUpTo(Len(WfSteps))
            /\ fs.summaries[1].steps = [k \in 1..Len(invoked) |-> Recorded(invoked[k])])

\* A run of three steps, the second one blank, ended with both others
\* run and recorded.
C24_Witness ==
    /\ run.ret = "summary"
    /\ run.summary.status = "success"
    /\ Len(WfSteps) = 3
    /\ ~NonEmptyStep(2)
    /\ invoked = <<1, 3>>
    /\ Len(fs.summaries[1].steps) = 2

\* The declared output paths that exist in the repository.
DeclaredAndThere ==
    {c \in RepoFiles : \E k \in 1..Len(opts.workflow.outputs) : opts.workflow.outputs[k] = c}

\* C26: files are copied only in the step that has written the summary, and
\* after it; that step returns the summary, with the status and the steps it
\* had before, whatever candidates are missing and whatever copies fail; the
\* copies in the run directory are the base names of the declared files
\* that exist and whose copy did not fail.
C26_CaptureBestEffort ==
    /\ [][fs'.copied # fs.copied =>
            /\ run.pc = "finish"
            /\ fs.summaries = <<>>
            /\ Len(fs'.summaries) >= 1
            /\ fs'.summaries[1] = run.summary]_vars
    /\ [][(run.pc = "finish" /\ Len(fs'.summaries) >= 1) =>
            /\ run'.ret = "summary"
            /\ run'.err = "none"
            /\ run'.summary = run.summary]_vars
    /\ []((run.pc = "returned" /\ run.err = "none") =>
            fs.copied = {Base(c) : c \in DeclaredAndThere \ fs.copyFailed})
    /\ [](run.pc # "returned" => (fs.copied = {} /\ fs.copyFailed = {}))

\* A run with a failed step returned its summary although one declared
\* output is missing and the copy of the other failed.
C26_Witness ==
    /\ run.pc = "returned"
    /\ run.ret = "summary"
    /\ run.summary.status = "failed"
    /\ fs.copyFailed # {}
    /\ fs.copied = {}
    /\ \E k \in 1..Len(opts.workflow.outputs) : opts.workflow.outputs[k] = "missing.txt"

LaunchFailed(i) == NonEmptyStep(i) /\ WfSteps[i].launch

\* C23: once bash could not be launched for a step, no later step is
\* invoked, the run has returned an error and no summary, no summary.json
\* exists, and the daemon-triggered execution that called the run goes on to
\* persist "failed" as the job's last status before it releases the lock.
C23_LaunchFailureAborts ==
    /\ [](\A a, b \in 1..Len(invoked) : a < b => ~LaunchFailed(invoked[a]))
    /\ [](\A a \in 1..Len(invoked) :
            LaunchFailed(invoked[a]) =>
                /\ run.pc = "returned"
                /\ run.ret = "error"
                /\ run.err = "launch"
                /\ fs.summaries = <<>>
                /\ fs.copied = {}
                /\ invoked = NonEmptyUpTo(invoked[a])
                /\ \A p \in Procs : procs[p].pc = "persist" => procs[p].result = "failed")
    /\ [][\A p \in Procs :
            (procs[p].pc = "persist" /\ run.err = "launch" /\ procs'[p] # procs[p])
            => /\ procs'[p].pc = "release"
               /\ db'[procs[p].name].lastStatus = "failed"]_vars

\* The second step of three could not be launched; the execution has
\* persisted "failed" and is about to release the lock.
C23_Witness ==
    /\ Len(invoked) = 2
    /\ LaunchFailed(invoked[2])
    /\ \E i \in 1..Len(WfSteps) : i > invoked[2] /\ NonEmptyStep(i)
    /\ \E p \in Procs :
          /\ procs[p].pc = "release"
          /\ db[procs[p].name].lastStatus = "failed"

\* The name of an entry holds one of the three words in some letter case.
SecretName(kv) ==
    \E w \in {"SECRET", "TOKEN", "KEY"} :
        \E i \in 1..(Len(SplitKey(kv)) - Len(w) + 1) :
            ToUpper(SubSeq(SplitKey(kv), i, i + Len(w) - 1)) = w

SecretKey(w) ==
    w \in {"token", "Token", "TOKEN", "secret", "Secret", "SECRET",
           "api_key", "Api_Key", "API_KEY", "api-key", "Api-Key", "API-KEY",
           "apikey", "ApiKey", "APIKEY"}

\* key=V stands at position i of t: a key, "=", and a non-space after it.
KeyValueAt(t, i) == i + 2 <= Len(t) /\ SecretKey(t[i]) /\ t[i + 1] = "=" /\ ~WS(t[i + 2])

\* Every key=value of t has the placeholder, and nothing else, as its value.
Redacted(t) ==
    \A i \in 1..Len(t) :
        KeyValueAt(t, i) => (t[i + 2] = Placeholder /\ (i + 3 <= Len(t) => WS(t[i + 3])))

\* key=V at i is not inside the value of an earlier key of the same word.
TopLevelAt(t, i) ==
    /\ KeyValueAt(t, i)
    /\ ~\E j \in 1..(i - 1) : KeyValueAt(t, j) /\ \A k \in j..i : ~WS(t[k])

KeysAt(t, P(_, _)) ==
    LET idx == SelectSeq([i \in 1..Len(t) |-> i], LAMBDA i : P(t, i))
    IN  [k \in 1..Len(idx) |-> t[idx[k]]]

\* C9 as stated: every key=V of the input has its key, unchanged and followed
\* by "=<redacted>", in what is persisted, and V no longer follows that key.
C9_EveryKeyKept ==
    rw.phase = "done" =>
        \A i \in 1..Len(rw.in) :
            KeyValueAt(rw.in, i) =>
                /\ \E j \in 1..Len(sink) :
                      /\ j + 2 <= Len(sink)
                      /\ sink[j] = rw.in[i]
                      /\ sink[j + 1] = "="
                      /\ sink[j + 2] = Placeholder
                /\ ~\E j \in 1..Len(sink) :
                      /\ j + 2 <= Len(sink)
                      /\ sink[j] = rw.in[i]
                      /\ sink[j + 1] = "="
                      /\ sink[j + 2] = rw.in[i + 2]

\* C9 amended: in what is persisted every key=value has the placeholder as
\* its whole value, and the keys so redacted are, in order and unchanged,
\* the keys of the input that are not inside the value of an earlier key.
C9_RedactedLines ==
    rw.phase = "done" =>
        /\ Redacted(sink)
        /\ KeysAt(sink, KeyValueAt) = KeysAt(rw.in, TopLevelAt)

\* A stream in two lines with a mixed-case key and a key inside a value.
C9_Witness ==
    /\ rw.phase = "done"
    /\ Len(KeysAt(rw.in, KeyValueAt)) >= 2
    /\ Len(KeysAt(rw.in, TopLevelAt)) = 1
    /\ \E i \in 1..Len(sink) : sink[i] = Placeholder

\* The first newline of s at or after position from, 0 if there is none.
NewlineFrom(s, from) ==
    IF \E i \in from..Len(s) : s[i] = "\n"
    THEN CHOOSE i \in from..Len(s) : s[i] = "\n" /\ \A j \in from..(i - 1) : s[j] # "\n"
    ELSE 0

\* The newline-terminated lines of s from position from on, each redacted as
\* a whole and terminated again.
RECURSIVE WholeLines(_, _)
WholeLines(s, from) ==
    IF NewlineFrom(s, from) = 0 THEN <<>>
    ELSE redact(SubSeq(s, from, NewlineFrom(s, from) - 1)) \o <<"\n">>
         \o WholeLines(s, NewlineFrom(s, from) + 1)

\* What follows the last newline of s.
UnterminatedTail(s) ==
    SubSeq(s, 1 + (CHOOSE i \in 0..Len(s) :
                     (i = 0 \/ s[i] = "\n") /\ \A j \in (i + 1)..Len(s) : s[j] # "\n"), Len(s))

Written == SubSeq(rw.in, 1, rw.pos)

\* C22: whatever the split of the stream into Write calls, what has been
\* forwarded after any of them is exactly the complete lines written so far,
\* in order, each redacted as a whole and newline-terminated, and the buffer
\* holds the unterminated rest; after Flush the forwarded bytes are the lines
\* of the whole stream followed by the redacted non-empty tail as a last line.
C22_ChunkingIndependent ==
    /\ rw.phase = "write" =>
          /\ sink = WholeLines(Written, 1)
          /\ rw.buf = UnterminatedTail(Written)
    /\ (rw.phase = "done" /\ rw.pos = Len(rw.in)) =>
          /\ rw.buf = <<>>
          /\ sink = WholeLines(rw.in, 1) \o
                    (IF UnterminatedTail(rw.in) = <<>> THEN <<>>
                     ELSE redact(UnterminatedTail(rw.in)) \o <<"\n">>)

\* A line with a key has been forwarded redacted, and the unterminated
\* start of the next line waits in the buffer for the Flush.
C22_Witness ==
    /\ rw.phase = "write"
    /\ rw.pos = Len(rw.in)
    /\ rw.buf # <<>>
    /\ \E i \in 1..Len(sink) : sink[i] = Placeholder

\* C10: neither run.log, nor the caller's Stdout, nor the cmd of a step in
\* summary.json holds a key=value whose value is not the placeholder.
C10_RedactionEverywhere ==
    /\ Redacted(fs.log)
    /\ Redacted(tty)
    /\ \A n \in 1..Len(fs.summaries) :
          \A k \in 1..Len(fs.summaries[n].steps) : Redacted(fs.summaries[n].steps[k].cmd)

(***************************************************************************)
(* Claims about the run directories                                        *)
(***************************************************************************)
SameSecond(i, j) == SecondOf(dirRuns[i].start) = SecondOf(dirRuns[j].start)

Started(i) == i \notin DOMAIN dirRuns /\ i \in DOMAIN dirRuns'

C29_TimezoneNeverBlocks ==
    /\ (daemon = "running" /\ reloadErr = "nil") =>
          \A n \in DOMAIN db : ParseOK(db[n].cron) => n \in DOMAIN jobs
    /\ \A e \in DOMAIN entries :
          /\ entries[e].timezone \in {"", "  ", "Local", " local "} => entries[e].loc = "Local"
          /\ entries[e].timezone \in {"utc", " UTC\t"} => entries[e].loc = "UTC"
          /\ entries[e].timezone \in {"America/New_York", "Asia/Tokyo"} =>
                 entries[e].loc = entries[e].timezone
          /\ entries[e].timezone \in {"Mars/Phobos", " Asia/Tokyo"} => entries[e].loc = "Local"

\* A job whose timezone no zone database knows is registered, in the local
\* zone.
C29_Witness ==
    /\ daemon = "running"
    /\ \E e \in DOMAIN entries :
          /\ entries[e].timezone = "Mars/Phobos"
          /\ entries[e].loc = "Local"
          /\ jobs[entries[e].name] = e

(***************************************************************************)
(* Claims about jobs whose cron spec does not parse                        *)
(***************************************************************************)
\* C30 as stated: no job whose cron spec in the store is invalid is in the
\* registration table, and a completed pass registers every job of the
\* store whose cron spec is valid.
C30_InvalidCronNeverRegistered ==
    /\ [](\A n \in DOMAIN db : ~ParseOK(db[n].cron) => n \notin DOMAIN jobs)
    /\ [][CompletedPass =>
             \A n \in DOMAIN db : ParseOK(db[n].cron) => n \in DOMAIN jobs']_vars

\* C30: no entry of the table was made from a cron spec that does not parse;
\* no step registers an unregistered job whose cron spec in the store is
\* invalid; and every completed pass registers each unregistered job of the
\* store whose cron spec is valid, with the spec the store holds.
C30_InvalidCronWaits ==
    /\ [](\A n \in DOMAIN jobs : ParseOK(entries[jobs[n]].cron))
    /\ [][\A n \in DOMAIN db \ DOMAIN jobs :
             ~ParseOK(db[n].cron) => n \notin DOMAIN jobs']_vars
    /\ [][CompletedPass =>
             \A n \in DOMAIN db \ DOMAIN jobs :
                 ParseOK(db[n].cron) =>
                     /\ n \in DOMAIN jobs'
                     /\ entries'[jobs'[n]].cron = db[n].cron]_vars

\* The first job of the listing got its handle after the last one: a pass
\* registered the last and left the first out, and a later pass, after the
\* first had been given a valid cron spec, registered it.
C30_Witness ==
    /\ NameOrder[1] \in DOMAIN jobs
    /\ NameOrder[3] \in DOMAIN jobs
    /\ jobs[NameOrder[1]] > jobs[NameOrder[3]]
    /\ ParseOK(db[NameOrder[1]].cron)
    /\ entries[jobs[NameOrder[1]]].cron = db[NameOrder[1]].cron

(***************************************************************************)
(* Claims about the summary the runner returns                             *)
(***************************************************************************)
\* C31: the steps of a summary the runner returns are the non-empty steps of
\* some initial part of the workflow, in order and as recorded; every step
\* but the last has exit code 0; under status "success" they are all the
\* non-empty steps of the workflow; startedAt is not later than endedAt.
C31_SummaryShape ==
    run.ret = "summary" =>
        /\ \E n \in 0..Len(WfSteps) :
              run.summary.steps =
                  [k \in 1..Len(NonEmptyUpTo(n)) |-> Recorded(NonEmptyUpTo(n)[k])]
        /\ \A k \in 1..(Len(run.summary.steps) - 1) : run.summary.steps[k].exitCode = 0
        /\ run.summary.status = "success" =>
              Len(run.summary.steps) = Len(NonEmptyUpTo(Len(WfSteps)))
        /\ run.summary.startedAt <= run.summary.endedAt

(***************************************************************************)
(* Claims about the daemon's writes to the store                           *)
(***************************************************************************)
BeforeRun(p) == procs[p].pc \in {"acquire", "skipped", "lockerr", "load"}

\* C32: a row of the store changes only in the step that ends a daemon
\* execution of its job which holds the lock and has the runner's result:
\* last status becomes the summary's status, "success" or "failed", or
\* "failed" for an error of the runner, last run the instant of the write,
\* and nothing else changes; the steps of an execution up to the load, and
\* the reconciliation pass, leave the store as it is.
C32_WritesOnlyAtEnd ==
    /\ [][\A n \in DOMAIN db :
             (n \in DOMAIN db' /\ db'[n] # db[n]) =>
                 \E p \in Procs :
                     /\ procs[p].kind = "daemon"
                     /\ procs[p].pc = "persist"
                     /\ procs[p].name = n
                     /\ locks[LockFile(n)] = p
                     /\ procs'[p].pc = "release"
                     /\ db'[n].lastStatus \in {"success", "failed"}
                     /\ db'[n] = [db[n] EXCEPT
                            !.lastStatus = IF procs[p].result = "error" THEN "failed"
                                           ELSE procs[p].result,
                            !.lastRun = clock.now]]_vars
    /\ [][(\E p \in Procs : BeforeRun(p) /\ procs'[p] # procs[p]) => db' = db]_vars
    /\ [][(\E ok \in BOOLEAN : Tick(ok)) => db' = db]_vars

\* Passes have run; one job has run to success, one to failure, and the
\* execution of a third, whose workflow did not load, is about to free its
\* lock with no status written.
C32_Witness ==
    /\ stable = 2
    /\ \E n, m \in DOMAIN db :
          /\ db[n].lastStatus = "success" /\ db[n].lastRun = clock.now
          /\ db[m].lastStatus = "failed"
    /\ \E p \in Procs :
          /\ procs[p].pc = "release"
          /\ db[procs[p].name].lastStatus = "none"
          /\ db[procs[p].name].lastRun = "none"

====
